---- MODULE Spec2Model ----
(***************************************************************************)
(* Scheduled Prompt Execution Engine (backend/open_webui/utils/scheduler.py *)
(* and backend/open_webui/models/scheduled_prompts.py).                     *)
(*                                                                          *)
(* Text is modelled as a sequence of tokens: a token is a word, " " (one    *)
(* whitespace character) or "\n\n" (a blank line).  Instants are Unix       *)
(* seconds.  Python's None is None for optional integers, the empty         *)
(* sequence for optional text and lists, "None" for optional status text.   *)
(***************************************************************************)
EXTENDS Integers, Sequences, FiniteSets, TLC

VARIABLES
    now,      \* time.time(): the wall clock, in seconds
    jobs,     \* the scheduled_prompt table: id -> row
    chats,    \* the chat table: sequence of chats, a chat's id is its index
    env,      \* what the engine only reads: user, session pool, registry, backend
    loop,     \* scheduler_loop: "idle" | "gather" | "sleep"; "stopped" | "down"
              \* once stop_scheduler was called or the process is gone
    tasks,    \* the tasks of the current batch, in creation order
    permits,  \* _execution_semaphore: the permits left
    runs      \* per job, the runs that reached their completion step

vars == <<now, jobs, chats, env, loop, tasks, permits, runs>>

----------------------------------------------------------------------------
(* Bounds of the model and constants of the program *)

NumJobs == 2
GateJobs == 6
MaxTime == 3690
TickStep == 30

SCHEDULER_CHECK_INTERVAL == 60
GateSize == 5
MaxManualRuns == 1
MaxNotesFollowups == 2
MaxHintIds == 5
MaxPreview == 500
SecondsPerMinute == 60
MinutesPerHour == 60
StartTime == MinutesPerHour * SecondsPerMinute

None == -1

----------------------------------------------------------------------------
(* Text helpers: str.lower, `in`, str.strip *)

Lower(tok) ==
    CASE tok = "Prompt_Scheduler" -> "prompt_scheduler"
      [] tok = "Notes_Manager" -> "notes_manager"
      [] tok = "JSON" -> "json"
      [] OTHER -> tok

LowerStr(s) == [k \in 1..Len(s) |-> Lower(s[k])]

Contains(s, sub) ==
    \E k \in 1..(Len(s) - Len(sub) + 1) : SubSeq(s, k, k + Len(sub) - 1) = sub

IsSpace(tok) == tok \in {" ", "\n\n"}

RECURSIVE LStrip(_)
LStrip(s) == IF s # <<>> /\ IsSpace(Head(s)) THEN LStrip(Tail(s)) ELSE s

RECURSIVE RStrip(_)
RStrip(s) ==
    IF s # <<>> /\ IsSpace(s[Len(s)]) THEN RStrip(SubSeq(s, 1, Len(s) - 1)) ELSE s

Strip(s) == RStrip(LStrip(s))

\* ", ".join(list of strings)
RECURSIVE Join(_)
Join(list) ==
    IF list = <<>> THEN <<>>
    ELSE IF Len(list) = 1 THEN list[1]
    ELSE list[1] \o <<",", " ">> \o Join(Tail(list))

\* sep.join(list of strings)
RECURSIVE JoinWith(_, _)
JoinWith(list, sep) ==
    IF list = <<>> THEN <<>>
    ELSE IF Len(list) = 1 THEN list[1]
    ELSE list[1] \o sep \o JoinWith(Tail(list), sep)

----------------------------------------------------------------------------
(* CronEvaluator: croniter(expr, now).get_next in the job's timezone *)

CronExprs == {"* * * * *", "*/2 * * * *", "0 * * * *"}

\* The minutes of the hour a 5-field expression fires at (the other four
\* fields are "*" in every expression of CronExprs).
CronMinutes(expr) ==
    CASE expr = "* * * * *" -> 0..(MinutesPerHour - 1)
      [] expr = "*/2 * * * *" -> {m \in 0..(MinutesPerHour - 1) : m % 2 = 0}
      [] expr = "0 * * * *" -> {0}

\* ZoneInfo(timezone), falling back to UTC for an unknown name: the zone's
\* offset from UTC in minutes.
UtcOffsetMinutes(timezone) ==
    CASE timezone = "UTC" -> 0
      [] timezone = "Asia/Kolkata" -> 330
      [] OTHER -> 0

\* Whether the expression fires at minute m (minutes since the epoch, UTC).
FiresAtMinute(expr, timezone, m) ==
    ((m + UtcOffsetMinutes(timezone)) % MinutesPerHour) \in CronMinutes(expr)

RECURSIVE NextFireMinute(_, _, _)
NextFireMinute(expr, timezone, m) ==
    IF FiresAtMinute(expr, timezone, m) THEN m
    ELSE NextFireMinute(expr, timezone, m + 1)

\* calculate_next_run with a fire instant of the current minute accepted
calculate_next_run_inclusive(cron_expression, timezone, t) ==
    NextFireMinute(cron_expression, timezone, t \div SecondsPerMinute)
        * SecondsPerMinute

\* The first fire instant strictly after t (croniter.get_next), as int seconds.
calculate_next_run(cron_expression, timezone, t) ==
    NextFireMinute(cron_expression, timezone, (t \div SecondsPerMinute) + 1)
        * SecondsPerMinute

----------------------------------------------------------------------------
(* JobStore: ScheduledPromptTable *)

\* update_execution_status with an error of None leaving the column as it is
update_execution_status_keeping_error(store, id, status, error, chat_id, next_run_at, t) ==
    IF id \notin DOMAIN store THEN store
    ELSE [store EXCEPT ![id] = [@ EXCEPT
            !.last_run_at = t,
            !.last_status = status,
            !.last_error = IF error # "None" THEN error ELSE @,
            !.run_count = (IF @ = None THEN 0 ELSE @) + 1,
            !.chat_id = IF chat_id # None THEN chat_id ELSE @,
            !.next_run_at = IF next_run_at # None THEN next_run_at ELSE @,
            !.updated_at = t]]

\* update_execution_status without its run_count line
update_execution_status_uncounted(store, id, status, error, chat_id, next_run_at, t) ==
    IF id \notin DOMAIN store THEN store
    ELSE [store EXCEPT ![id] = [@ EXCEPT
            !.last_run_at = t,
            !.last_status = status,
            !.last_error = error,
            !.chat_id = IF chat_id # None THEN chat_id ELSE @,
            !.next_run_at = IF next_run_at # None THEN next_run_at ELSE @,
            !.updated_at = t]]

\* update_execution_status: a next_run_at or chat_id of None leaves the column.
update_execution_status(store, id, status, error, chat_id, next_run_at, t) ==
    IF id \notin DOMAIN store THEN store
    ELSE [store EXCEPT ![id] = [@ EXCEPT
            !.last_run_at = t,
            !.last_status = status,
            !.last_error = error,
            !.run_count = (IF @ = None THEN 0 ELSE @) + 1,
            !.chat_id = IF chat_id # None THEN chat_id ELSE @,
            !.next_run_at = IF next_run_at # None THEN next_run_at ELSE @,
            !.updated_at = t]]

\* update_scheduled_prompt_by_id: form holds the fields that are not None.
update_scheduled_prompt_by_id(store, id, form, next_run_at, t) ==
    IF id \notin DOMAIN store THEN store
    ELSE [store EXCEPT ![id] = [f \in DOMAIN store[id] |->
            IF f \in DOMAIN form THEN form[f]
            ELSE IF f = "next_run_at" /\ next_run_at # None THEN next_run_at
            ELSE IF f = "updated_at" THEN t
            ELSE store[id][f]]]

\* The filter without its enabled == True condition
IsDue_ignoring_enabled(row, current_time) ==
    /\ row.next_run_at # None
    /\ row.next_run_at <= current_time

IsDue(row, current_time) ==
    /\ row.enabled = TRUE
    /\ row.next_run_at # None
    /\ row.next_run_at <= current_time

\* ORDER BY next_run_at ASC (rows with equal next_run_at in id order).
RECURSIVE OrderByNextRun(_, _)
OrderByNextRun(store, ids) ==
    IF ids = {} THEN <<>>
    ELSE LET first == CHOOSE a \in ids : \A b \in ids :
                          \/ store[a].next_run_at < store[b].next_run_at
                          \/ /\ store[a].next_run_at = store[b].next_run_at
                             /\ a <= b
         IN <<first>> \o OrderByNextRun(store, ids \ {first})

\* A query that only sees the fire instants of the last interval
get_due_scheduled_prompts_recent(store, current_time) ==
    LET ids == {id \in DOMAIN store :
                   /\ IsDue(store[id], current_time)
                   /\ store[id].next_run_at > current_time - SCHEDULER_CHECK_INTERVAL}
        ordered == OrderByNextRun(store, ids)
    IN [k \in 1..Len(ordered) |-> [store[ordered[k]] EXCEPT !.id = ordered[k]]]

get_due_scheduled_prompts(store, current_time) ==
    LET ids == {id \in DOMAIN store : IsDue(store[id], current_time)}
        ordered == OrderByNextRun(store, ids)
    IN [k \in 1..Len(ordered) |-> [store[ordered[k]] EXCEPT !.id = ordered[k]]]

----------------------------------------------------------------------------
(* Notes-tool helpers *)

is_notes_tool_enabled(action_tools) ==
    \E k \in 1..Len(action_tools) :
        \/ Contains(LowerStr(action_tools[k]), <<"notes_manager">>)
        \/ Contains(LowerStr(action_tools[k]), <<"note_manager">>)

source_matches_note_function(source_name, function_name) ==
    LET normalized == LowerStr(source_name)
        n == Len(normalized)
    IN \/ normalized = <<function_name>>
       \/ /\ n >= 2
          /\ SubSeq(normalized, n - 1, n) = <<"/", function_name>>

IsUuid(tok) == tok \in {"uuid-1", "uuid-2", "uuid-3", "uuid-4", "uuid-5", "uuid-6"}

\* list.append(x) when x is not yet in the list
RECURSIVE AppendNew(_, _)
AppendNew(list, items) ==
    IF items = <<>> THEN list
    ELSE AppendNew(IF \E k \in 1..Len(list) : list[k] = Head(items)
                   THEN list ELSE Append(list, Head(items)),
                   Tail(items))

\* Concatenation of a sequence of sequences
RECURSIVE Flatten(_)
Flatten(ss) == IF ss = <<>> THEN <<>> ELSE Head(ss) \o Flatten(Tail(ss))

IsListSource(source) ==
    \/ source_matches_note_function(source.name, "list_my_notes")
    \/ source_matches_note_function(source.name, "search_notes")

IsGetSource(source) == source_matches_note_function(source.name, "get_note")

extract_note_ids_from_list_sources(sources) ==
    LET listed == SelectSeq(sources, IsListSource)
        docs == Flatten([k \in 1..Len(listed) |-> Flatten(listed[k].document)])
    IN AppendNew(<<>>, SelectSeq(docs, IsUuid))

\* (used_note_ids, has_not_found_error)
extract_get_note_ids_and_failures(sources) ==
    LET got == SelectSeq(sources, IsGetSource)
        metas == Flatten([k \in 1..Len(got) |-> got[k].metadata])
        HasId(m) == m.note_id # ""
        withId == SelectSeq(metas, HasId)
    IN [used |-> [k \in 1..Len(withId) |-> withId[k].note_id],
        not_found |-> \E k \in 1..Len(got) : \E d \in 1..Len(got[k].document) :
            Contains(LowerStr(got[k].document[d]),
                     <<"note", " ", "not", " ", "found">>)]

extract_note_attachments_from_sources(sources) ==
    LET got == SelectSeq(sources, IsGetSource)
        Pairs(src) ==
            LET idx == SelectSeq([k \in 1..Len(src.document) |-> k],
                                 LAMBDA k : Strip(src.document[k]) # <<>>)
            IN [j \in 1..Len(idx) |->
                  [note_id |-> IF idx[j] <= Len(src.metadata)
                               THEN src.metadata[idx[j]].note_id ELSE "",
                   content |-> Strip(src.document[idx[j]])]]
    IN Flatten([k \in 1..Len(got) |-> Pairs(got[k])])

----------------------------------------------------------------------------
(* sanitize_tool_chatter_text *)

MentionsTool(lowered, action_tools) ==
    \E k \in 1..Len(action_tools) : Contains(lowered, LowerStr(action_tools[k]))

\* re.split(r"\n{2,}", content), each block stripped, empty blocks dropped
RECURSIVE SplitBlocks(_, _)
SplitBlocks(s, cur) ==
    IF s = <<>> THEN (IF Strip(cur) = <<>> THEN <<>> ELSE <<Strip(cur)>>)
    ELSE IF Head(s) = "\n\n"
         THEN (IF Strip(cur) = <<>> THEN <<>> ELSE <<Strip(cur)>>)
              \o SplitBlocks(Tail(s), <<>>)
         ELSE SplitBlocks(Tail(s), Append(cur, Head(s)))

BlockIsChatter(block, action_tools) ==
    LET block_lower == LowerStr(block)
    IN \/ /\ Contains(block_lower, <<"to=">>)
          /\ MentionsTool(block_lower, action_tools)
       \/ Contains(block_lower, <<"need", " ", "proper", " ", "json">>)
       \/ Contains(block_lower, <<"commentary">>)

\* The last block that is not chatter, or <<>> when every block is.
RECURSIVE LastCleanBlock(_, _)
LastCleanBlock(blocks, action_tools) ==
    IF blocks = <<>> THEN <<>>
    ELSE IF BlockIsChatter(blocks[Len(blocks)], action_tools)
         THEN LastCleanBlock(SubSeq(blocks, 1, Len(blocks) - 1), action_tools)
         ELSE blocks[Len(blocks)]

\* The index after the run of whitespace (or of non-whitespace) tokens at q.
RECURSIVE AfterSpaces(_, _)
AfterSpaces(s, q) ==
    IF q <= Len(s) /\ IsSpace(s[q]) THEN AfterSpaces(s, q + 1) ELSE q

RECURSIVE AfterWord(_, _)
AfterWord(s, q) ==
    IF q <= Len(s) /\ ~IsSpace(s[q]) THEN AfterWord(s, q + 1) ELSE q

\* One "to=<word>[ commentary][ <short word>] " unit of the pattern at p: the
\* indexes after it, in the order the regex engine tries them (greedy first).
UnitEnds(s, p) ==
    IF ~(/\ p <= Len(s)
         /\ Lower(s[p]) = "to="
         /\ (p = 1 \/ IsSpace(s[p - 1]))
         /\ AfterWord(s, p + 1) > p + 1)
    THEN <<>>
    ELSE LET w == AfterWord(s, p + 1)
             a == AfterSpaces(s, w)
             hasC == a > w /\ a <= Len(s) /\ Lower(s[a]) = "commentary"
             c == a + 1
             Short(q) == LET b == AfterSpaces(s, q)
                         IN IF b > q /\ b <= Len(s)
                            THEN <<AfterSpaces(s, AfterWord(s, b))>> ELSE <<>>
         IN (IF hasC THEN Short(c) \o <<AfterSpaces(s, c)>> ELSE <<>>)
            \o Short(w) \o <<a>>

\* (?: unit ){2,} from p with n units matched: the index after the match, 0 if none.
RECURSIVE MatchFrom(_, _, _)
RECURSIVE TryEnds(_, _, _)
MatchFrom(s, p, n) ==
    LET r == TryEnds(s, UnitEnds(s, p), n)
    IN IF r # 0 THEN r ELSE IF n >= 2 THEN p ELSE 0

TryEnds(s, ends, n) ==
    IF ends = <<>> THEN 0
    ELSE LET r == MatchFrom(s, Head(ends), n + 1)
         IN IF r # 0 THEN r ELSE TryEnds(s, Tail(ends), n)

\* re.sub(pattern, "", content)
RECURSIVE RemoveChatter(_, _)
RemoveChatter(s, p) ==
    IF p > Len(s) THEN <<>>
    ELSE LET e == MatchFrom(s, p, 0)
         IN IF e # 0 THEN RemoveChatter(s, e)
            ELSE <<s[p]>> \o RemoveChatter(s, p + 1)

\* re.sub(r"\s{2,}", " ", text)
RECURSIVE CollapseSpaces(_, _)
CollapseSpaces(s, p) ==
    IF p > Len(s) THEN <<>>
    ELSE IF IsSpace(s[p])
         THEN LET e == AfterSpaces(s, p)
              IN (IF e - p >= 2 \/ s[p] = "\n\n" THEN <<" ">> ELSE <<s[p]>>)
                 \o CollapseSpaces(s, e)
         ELSE <<s[p]>> \o CollapseSpaces(s, p + 1)

sanitize_tool_chatter_text(content, action_tools) ==
    LET lowered == LowerStr(content)
        blocks == SplitBlocks(content, <<>>)
        block == LastCleanBlock(blocks, action_tools)
        cleaned == Strip(CollapseSpaces(RemoveChatter(content, 1), 1))
    IN IF Strip(content) = <<>> THEN content
       ELSE IF ~Contains(lowered, <<"to=">>) \/ ~MentionsTool(lowered, action_tools)
            THEN content
       ELSE IF Len(blocks) > 1 /\ block # <<>> THEN block
       ELSE IF cleaned # <<>> THEN cleaned
       ELSE content

----------------------------------------------------------------------------
(* execute_scheduled_prompt: building the request *)

NoModel == "<no model>"

RegistryIds(e) == {e.models[k].id : k \in 1..Len(e.models)}

\* The model the run uses, NoModel when there is none to fall back to.
ResolveModel(prompt, e) ==
    IF prompt.model_id \in RegistryIds(e) THEN prompt.model_id
    ELSE IF e.user_models # <<>> /\ e.user_models[1] \in RegistryIds(e)
         THEN e.user_models[1]
    ELSE IF e.models # <<>> THEN e.models[1].id
    ELSE NoModel

ModelToolIds(e, model_id) ==
    LET k == CHOOSE k \in 1..Len(e.models) : e.models[k].id = model_id
    IN e.models[k].toolIds

\* tool_ids: the prompt's own list, else the model's configured list
ResolveToolIds(prompt, e, model_id) ==
    IF prompt.tool_ids # <<>> THEN prompt.tool_ids ELSE ModelToolIds(e, model_id)

\* The filter without .lower()
IsSchedulerTool_case_sensitive(tool_id) ==
    Contains(tool_id, <<"prompt_scheduler">>)

IsSchedulerTool(tool_id) == Contains(LowerStr(tool_id), <<"prompt_scheduler">>)

\* [t for t in tool_ids if "prompt_scheduler" not in t.lower()]
RECURSIVE ActionTools(_)
ActionTools(tool_ids) ==
    IF tool_ids = <<>> THEN <<>>
    ELSE (IF IsSchedulerTool(Head(tool_ids)) THEN <<>> ELSE <<Head(tool_ids)>>)
         \o ActionTools(Tail(tool_ids))

ToolInstruction(action_tools) ==
    (IF action_tools # <<>>
     THEN <<"\n\n", "IMPORTANT: ... You have access to these tools:", " ">>
          \o Join(action_tools) \o <<".", " ", "Use them ...">>
     ELSE <<"\n\n", "IMPORTANT: ... Respond helpfully to the user's request.">>)
    \o (IF \E k \in 1..Len(action_tools) : action_tools[k] = <<"notes_manager">>
        THEN <<"\n\n", "When using notes_manager ... Use get_note ...">>
        ELSE <<>>)

BuildMessages(prompt, tool_ids, action_tools) ==
    LET base == (IF prompt.system_prompt # <<>>
                 THEN <<[role |-> "system", content |-> prompt.system_prompt]>>
                 ELSE <<>>)
                \o <<[role |-> "user", content |-> prompt.prompt]>>
    IN IF tool_ids = <<>> THEN base
       ELSE IF base[1].role = "system"
            THEN [base EXCEPT ![1].content = @ \o ToolInstruction(action_tools)]
       ELSE <<[role |-> "system",
               content |-> <<"You are a helpful assistant.">>
                           \o ToolInstruction(action_tools)]>> \o base

\* getattr(prompt, "function_calling_mode", "default") or "default", then
\* anything but default and native is auto
FunctionCallingMode(prompt) ==
    LET function_calling_mode ==
            IF prompt.function_calling_mode \in {"None", ""}
            THEN "default" ELSE prompt.function_calling_mode
    IN IF function_calling_mode \in {"default", "native"}
       THEN function_calling_mode ELSE "auto"

\* A first request that always carries params.function_calling
InitialPayload_always_params(model_id, messages, mode, action_tools) ==
    [model |-> model_id, messages |-> messages, stream |-> FALSE,
     tool_ids |-> action_tools, function_calling |-> mode]

\* A request: function_calling "absent" is a payload without params, tool_ids
\* <<>> a payload without tool_ids.
InitialPayload(model_id, messages, mode, action_tools) ==
    [model |-> model_id, messages |-> messages, stream |-> FALSE,
     tool_ids |-> action_tools,
     function_calling |-> IF mode = "auto" THEN "absent" ELSE mode]

FollowupPayload(model_id, messages, action_tools) ==
    [model |-> model_id, messages |-> messages, stream |-> FALSE,
     tool_ids |-> action_tools, function_calling |-> "default"]

\* message.get("content") or message.get("reasoning_content") or ""
ContentOf(response) ==
    IF response.content # <<>> THEN response.content
    ELSE response.reasoning_content

NoResponse ==
    [ok |-> TRUE, content |-> <<>>, reasoning_content |-> <<>>,
     tool_calls |-> FALSE, sources |-> <<>>]

----------------------------------------------------------------------------
(* execute_scheduled_prompt: the repair pipeline S0-S4 *)

SENTINEL ==
    <<"Scheduled prompt completed, but the model returned only tool calls and no final text.">>

S2_INSTRUCTION ==
    <<"Execute the requested tool call(s) above, then answer the original user request in plain language. Do not return tool-call JSON.">>

S3_INSTRUCTION ==
    <<"Your prior attempt produced malformed tool-call chatter. ... Do not include tool-call syntax, commentary, analysis text, or JSON.">>

S4_INSTRUCTION_HEAD ==
    <<"You MUST call get_note with parameter note_id", " ",
      "using one of these IDs:", " ">>

S4_INSTRUCTION_TAIL ==
    <<".", " ", "Use the exact UUID from the ID column, not the note title. ...">>

chatter_markers ==
    <<  <<"to=">>,
        <<"tool", " ", "call">>,
        <<"tool_call">>,
        <<"arguments">>,
        <<"need", " ", "proper", " ", "json">>,
        <<"do", " ", "not", " ", "output", " ", "json">>,
        <<"json">>  >>

\* json.loads(text) gives a dict whose "tool" or "tool_calls" value is truthy.
\* An object text is "{" key ":" value "}"; the key tool_calls is the tokens
\* "tool_call" "s".
IsRawToolRequest(content) ==
    LET text == Strip(content)
        n == Len(text)
    IN /\ n >= 5
       /\ text[1] = "{"
       /\ text[n] = "}"
       /\ \E c \in 3..(n - 2) :
            /\ text[c] = ":"
            /\ SubSeq(text, 2, c - 1) \in {<<"tool">>, <<"tool_call", "s">>}
            /\ n - 1 = c + 1
            /\ text[c + 1] \notin {"{", "}", ":", " ", "\n\n"}
            /\ text[c + 1] \notin {"null", "\"\"", "false", "0", "[]", "{}"}

has_malformed_tool_chatter(content, action_tools) ==
    LET assistant_content_lower == LowerStr(content)
    IN /\ \E k \in 1..Len(chatter_markers) :
            Contains(assistant_content_lower, chatter_markers[k])
       /\ MentionsTool(assistant_content_lower, action_tools)

Take(list, n) == SubSeq(list, 1, IF Len(list) < n THEN Len(list) ELSE n)

\* Strings as one-token texts, for ", ".join over note ids
AsTexts(list) == [k \in 1..Len(list) |-> <<list[k]>>]

needs_notes_followup(sources) ==
    LET has_list_notes_source == \E k \in 1..Len(sources) : IsListSource(sources[k])
        has_get_note_source == \E k \in 1..Len(sources) : IsGetSource(sources[k])
        note_ids_from_list == extract_note_ids_from_list_sources(sources)
        got == extract_get_note_ids_and_failures(sources)
        used_expected_note_id ==
            \E k \in 1..Len(got.used) : \E j \in 1..Len(note_ids_from_list) :
                got.used[k] = note_ids_from_list[j]
    IN /\ has_list_notes_source
       /\ \/ ~has_get_note_source
          \/ got.not_found
          \/ (note_ids_from_list # <<>> /\ ~used_expected_note_id)

IssueCall(t, stage, request) ==
    [t EXCEPT !.pc = "call", !.stage = stage, !.sent = Append(@, request)]

Settled(t) == [t EXCEPT !.pc = "settled"]

\* The notes follow-up loop with notes_followup_attempts <= 2 as its condition
FromS4_one_more(t) ==
    LET note_ids_from_list == extract_note_ids_from_list_sources(t.response.sources)
    IN IF /\ is_notes_tool_enabled(t.action_tools)
          /\ t.attempts <= MaxNotesFollowups
          /\ needs_notes_followup(t.response.sources)
          /\ note_ids_from_list # <<>>
       THEN IssueCall([t EXCEPT !.attempts = @ + 1], "S4",
                FollowupPayload(t.model_id,
                    t.messages \o
                    << [role |-> "assistant", content |-> t.content],
                       [role |-> "user",
                        content |-> S4_INSTRUCTION_HEAD
                            \o Join(AsTexts(Take(note_ids_from_list, MaxHintIds)))
                            \o S4_INSTRUCTION_TAIL] >>,
                    t.action_tools))
       ELSE Settled(t)

\* The notes follow-up loop, from the test of its condition.
\* A follow-up that names every listed id
FromS4_all_ids(t) ==
    LET note_ids_from_list == extract_note_ids_from_list_sources(t.response.sources)
    IN IF /\ is_notes_tool_enabled(t.action_tools)
          /\ t.attempts < MaxNotesFollowups
          /\ needs_notes_followup(t.response.sources)
          /\ note_ids_from_list # <<>>
       THEN IssueCall([t EXCEPT !.attempts = @ + 1], "S4",
                FollowupPayload(t.model_id,
                    t.messages \o
                    << [role |-> "assistant", content |-> t.content],
                       [role |-> "user",
                        content |-> S4_INSTRUCTION_HEAD
                            \o Join(AsTexts(note_ids_from_list))
                            \o S4_INSTRUCTION_TAIL] >>,
                    t.action_tools))
       ELSE Settled(t)

\* A follow-up loop that looks only at whether the notes were listed
FromS4_listing_only(t) ==
    LET note_ids_from_list == extract_note_ids_from_list_sources(t.response.sources)
    IN IF /\ is_notes_tool_enabled(t.action_tools)
          /\ t.attempts < MaxNotesFollowups
          /\ note_ids_from_list # <<>>
       THEN IssueCall([t EXCEPT !.attempts = @ + 1], "S4",
                FollowupPayload(t.model_id,
                    t.messages \o
                    << [role |-> "assistant", content |-> t.content],
                       [role |-> "user", content |-> S4_INSTRUCTION_HEAD] >>,
                    t.action_tools))
       ELSE Settled(t)

FromS4(t) ==
    LET note_ids_from_list == extract_note_ids_from_list_sources(t.response.sources)
    IN IF /\ is_notes_tool_enabled(t.action_tools)
          /\ t.attempts < MaxNotesFollowups
          /\ needs_notes_followup(t.response.sources)
          /\ note_ids_from_list # <<>>
       THEN IssueCall([t EXCEPT !.attempts = @ + 1], "S4",
                FollowupPayload(t.model_id,
                    t.messages \o
                    << [role |-> "assistant", content |-> t.content],
                       [role |-> "user",
                        content |-> S4_INSTRUCTION_HEAD
                            \o Join(AsTexts(Take(note_ids_from_list, MaxHintIds)))
                            \o S4_INSTRUCTION_TAIL] >>,
                    t.action_tools))
       ELSE Settled(t)

\* A pipeline that leaves the content after S3 as it is
AfterS3_unsanitized(t) == FromS4(t)

AfterS3(t) ==
    FromS4(IF t.chatter
           THEN [t EXCEPT !.content = sanitize_tool_chatter_text(@, t.action_tools)]
           ELSE t)

FromS3(t) ==
    LET chatter == has_malformed_tool_chatter(t.content, t.action_tools)
        note_ids_from_list ==
            IF is_notes_tool_enabled(t.action_tools)
            THEN extract_note_ids_from_list_sources(t.response.sources)
            ELSE <<>>
        notes_hint ==
            IF note_ids_from_list # <<>>
            THEN <<" ", "Use get_note with parameter note_id and one of these IDs:", " ">>
                 \o Join(AsTexts(Take(note_ids_from_list, MaxHintIds)))
                 \o <<".", " ", "Do not call list_my_notes/search_notes again unless none of these IDs work.">>
            ELSE <<>>
        t1 == [t EXCEPT !.chatter = chatter]
    IN IF chatter /\ t.action_tools # <<>>
       THEN IssueCall(t1, "S3",
                FollowupPayload(t.model_id,
                    t.messages \o
                    << [role |-> "user", content |-> S3_INSTRUCTION \o notes_hint] >>,
                    t.action_tools))
       ELSE AfterS3(t1)

\* A continuation that leaves the assistant's raw output out of its messages
FromS2_without_raw(t) ==
    IF IsRawToolRequest(t.content) /\ t.action_tools # <<>>
    THEN IssueCall(t, "S2",
            FollowupPayload(t.model_id,
                t.messages \o << [role |-> "user", content |-> S2_INSTRUCTION] >>,
                t.action_tools))
    ELSE FromS3(t)

FromS2(t) ==
    IF IsRawToolRequest(t.content) /\ t.action_tools # <<>>
    THEN IssueCall(t, "S2",
            FollowupPayload(t.model_id,
                t.messages \o
                << [role |-> "assistant", content |-> t.content],
                   [role |-> "user", content |-> S2_INSTRUCTION] >>,
                t.action_tools))
    ELSE FromS3(t)

\* A run that takes over the response of a continuation or follow-up whose
\* content it discards
OnResponse_adopting_sources(t, r) ==
    LET replaced == [t EXCEPT !.response = r, !.content = ContentOf(r)]
        kept == IF ContentOf(r) # <<>> THEN replaced ELSE [t EXCEPT !.response = r]
    IN CASE t.stage = "S0" ->
              IF ContentOf(r) = <<>> /\ r.tool_calls
              THEN IF t.mode # "default"
                   THEN IssueCall(replaced, "S1",
                            [t.sent[1] EXCEPT !.function_calling = "default"])
                   ELSE FromS2([replaced EXCEPT !.content = SENTINEL])
              ELSE FromS2(replaced)
         [] t.stage = "S1" ->
              FromS2(IF ContentOf(r) = <<>>
                     THEN [replaced EXCEPT !.content = SENTINEL]
                     ELSE replaced)
         [] t.stage = "S2" -> FromS3(kept)
         [] t.stage = "S3" -> AfterS3(kept)
         [] t.stage = "S4" -> Settled(kept)

\* A run that retries a tool-calls-only response with the request as it was sent
OnResponse_retry_as_sent(t, r) ==
    LET replaced == [t EXCEPT !.response = r, !.content = ContentOf(r)]
    IN IF ContentOf(r) = <<>> /\ r.tool_calls /\ Len(t.sent) = 1
       THEN IssueCall(replaced, "S1", t.sent[1])
       ELSE FromS2(IF ContentOf(r) = <<>>
                   THEN [replaced EXCEPT !.content = SENTINEL]
                   ELSE replaced)

\* What the run does with the response to the call in flight, up to its next
\* call or to the end of the pipeline.
OnResponse(t, r) ==
    LET replaced == [t EXCEPT !.response = r, !.content = ContentOf(r)]
        kept == IF ContentOf(r) # <<>> THEN replaced ELSE t
    IN CASE t.stage = "S0" ->
              IF ContentOf(r) = <<>> /\ r.tool_calls
              THEN IF t.mode # "default"
                   THEN IssueCall(replaced, "S1",
                            [t.sent[1] EXCEPT !.function_calling = "default"])
                   ELSE FromS2([replaced EXCEPT !.content = SENTINEL])
              ELSE FromS2(replaced)
         [] t.stage = "S1" ->
              FromS2(IF ContentOf(r) = <<>>
                     THEN [replaced EXCEPT !.content = SENTINEL]
                     ELSE replaced)
         [] t.stage = "S2" -> FromS3(kept)
         [] t.stage = "S3" -> AfterS3(kept)
         [] t.stage = "S4" ->
              IF ContentOf(r) # <<>>
              THEN FromS4([t EXCEPT
                      !.response = r,
                      !.content = sanitize_tool_chatter_text(ContentOf(r),
                                                             t.action_tools)])
              ELSE Settled(t)

----------------------------------------------------------------------------
(* execute_scheduled_prompt: transcript, job state, notifications *)

\* The assistant message; sources, citations and note_attachments of <<>> are
\* keys the message does not carry.
AssistantMessage(t, timestamp) ==
    [role |-> "assistant", content |-> t.content, timestamp |-> timestamp,
     models |-> <<t.model_id>>,
     sources |-> t.response.sources,
     citations |-> t.response.sources,
     note_attachments |-> extract_note_attachments_from_sources(t.response.sources)]

UserMessage(t, timestamp) ==
    [role |-> "user", content |-> t.prompt.prompt, timestamp |-> timestamp,
     models |-> <<t.model_id>>,
     sources |-> <<>>, citations |-> <<>>, note_attachments |-> <<>>]

NewChat(t, chat_messages) ==
    [title |-> <<"[Scheduled] ">> \o
               (IF t.prompt.name # <<>> THEN t.prompt.name ELSE t.prompt.prompt),
     messages |-> chat_messages,
     models |-> <<t.model_id>>,
     tool_ids |-> t.action_tools,
     user_id |-> t.prompt.user_id,
     deleted |-> FALSE]

ChatExists(store, chat_id) ==
    chat_id \in 1..Len(store) /\ ~store[chat_id].deleted

\* A transcript that overwrites the messages of the linked chat
PersistTranscript_overwriting(store, t, timestamp) ==
    LET chat_messages == <<UserMessage(t, timestamp), AssistantMessage(t, timestamp)>>
        chat_id == t.prompt.chat_id
    IN IF t.prompt.create_new_chat \/ chat_id = None \/ ~ChatExists(store, chat_id)
       THEN [chats |-> Append(store, NewChat(t, chat_messages)),
             chat_id |-> Len(store) + 1]
       ELSE [chats |-> [store EXCEPT ![chat_id].messages = chat_messages],
             chat_id |-> chat_id]

\* Create or update the chat: the chat table after it, and the chat's id.
PersistTranscript(store, t, timestamp) ==
    LET chat_messages == <<UserMessage(t, timestamp), AssistantMessage(t, timestamp)>>
        chat_id == t.prompt.chat_id
    IN IF t.prompt.create_new_chat \/ chat_id = None \/ ~ChatExists(store, chat_id)
       THEN [chats |-> Append(store, NewChat(t, chat_messages)),
             chat_id |-> Len(store) + 1]
       ELSE [chats |-> [store EXCEPT ![chat_id].messages = @ \o chat_messages],
             chat_id |-> chat_id]

\* A success that leaves a one-off job enabled
RecordSuccess_still_enabled(store, prompt, chat_id, t) ==
    update_execution_status(store, prompt.id, "success", "None", chat_id,
        IF prompt.run_once THEN None
        ELSE calculate_next_run(prompt.cron_expression, prompt.timezone, t), t)

\* The job row after a run that produced chat_id.
RecordSuccess(store, prompt, chat_id, t) ==
    IF prompt.run_once
    THEN update_scheduled_prompt_by_id(
             update_execution_status(store, prompt.id, "success", "None",
                                     chat_id, None, t),
             prompt.id, [enabled |-> FALSE], None, t)
    ELSE update_execution_status(store, prompt.id, "success", "None", chat_id,
             calculate_next_run(prompt.cron_expression, prompt.timezone, t), t)

\* The except branch with error=None passed to the store
RecordError_without_message(store, prompt, error, t) ==
    IF prompt.run_once
    THEN update_scheduled_prompt_by_id(
             update_execution_status(store, prompt.id, "error", "None",
                                     None, None, t),
             prompt.id, [enabled |-> FALSE], None, t)
    ELSE update_execution_status(store, prompt.id, "error", "None", None,
             calculate_next_run(prompt.cron_expression, prompt.timezone, t), t)

\* The job row after a run that raised error (the except branch).
RecordError(store, prompt, error, t) ==
    IF prompt.run_once
    THEN update_scheduled_prompt_by_id(
             update_execution_status(store, prompt.id, "error", error,
                                     None, None, t),
             prompt.id, [enabled |-> FALSE], None, t)
    ELSE update_execution_status(store, prompt.id, "error", error, None,
             calculate_next_run(prompt.cron_expression, prompt.timezone, t), t)

\* str(raw_url or "").strip().rstrip("/"), None (here <<>>) when empty
RECURSIVE get_webui_base_url(_)
get_webui_base_url(raw_url) ==
    LET base_url == Strip(raw_url)
    IN IF base_url # <<>> /\ base_url[Len(base_url)] = "/"
       THEN get_webui_base_url(SubSeq(base_url, 1, Len(base_url) - 1))
       ELSE base_url

\* The absolute URL of an app-relative path, <<>> for None.
build_webui_url(e, path) ==
    LET base_url == get_webui_base_url(e.webui_url)
    IN IF base_url = <<>> THEN <<>>
       ELSE base_url \o (IF Head(path) = "/" THEN path ELSE <<"/">> \o path)

\* The fallback of execute_scheduled_prompt, PORT being unset.
LocalUrl(path) == <<"http://127.0.0.1:", "8080">> \o path

\* (text or "").strip(), cut to max_length; a token counts as one character.
truncate_text_for_notification(text) ==
    LET cleaned == Strip(text)
    IN IF Len(cleaned) <= MaxPreview THEN cleaned
       ELSE RStrip(SubSeq(cleaned, 1, MaxPreview)) \o <<"...">>

\* A payload without deep links; chat_id None and a url <<>> are keys that are
\* absent or None.
NoData ==
    [status |-> "none", title |-> <<>>, message |-> <<>>, chat_id |-> None,
     chat_url |-> <<>>, scheduled_prompts_url |-> <<>>]

\* The two payloads of a successful run: app for send_user_notification, push
\* for send_ntfy_notification.
SuccessNotifications(t, e, chat_id) ==
    LET built == build_webui_url(e, <<"/", "workspace/scheduled-prompts">>)
        scheduled_prompts_url ==
            IF built = <<>> THEN LocalUrl(<<"/", "workspace/scheduled-prompts">>)
            ELSE built
        chat_built == IF chat_id # None
                      THEN build_webui_url(e, <<"/", "c/", ToString(chat_id)>>)
                      ELSE <<>>
        chat_url == IF chat_id # None /\ chat_built = <<>>
                    THEN LocalUrl(<<"/", "c/", ToString(chat_id)>>)
                    ELSE chat_built
        notification_message ==
            <<"'">> \o t.prompt.name \o <<"'", " ", "ran successfully">>
            \o (IF t.prompt.run_once THEN <<" ", "(one-off, now disabled)">>
                ELSE <<>>)
        output_preview == truncate_text_for_notification(t.content)
        ntfy_message ==
            IF output_preview # <<>>
            THEN notification_message \o <<"\n\n", "Output:", "\n">> \o output_preview
            ELSE notification_message
        data == [status |-> "success", title |-> <<"Scheduled prompt completed">>,
                 message |-> notification_message, chat_id |-> chat_id,
                 chat_url |-> chat_url,
                 scheduled_prompts_url |-> scheduled_prompts_url]
    IN [app |-> data, push |-> [data EXCEPT !.message = ntfy_message]]

\* The two payloads of a failed run: neither has a chat_id or a chat_url.
ErrorNotifications(t, e, error) ==
    LET built == build_webui_url(e, <<"/", "workspace/scheduled-prompts">>)
        scheduled_prompts_url ==
            IF built = <<>> THEN LocalUrl(<<"/", "workspace/scheduled-prompts">>)
            ELSE built
        data == [status |-> "error", title |-> <<"Scheduled prompt failed">>,
                 message |-> <<"'">> \o t.prompt.name
                             \o <<"'", " ", "failed:", " ", error>>,
                 chat_id |-> None, chat_url |-> <<>>,
                 scheduled_prompts_url |-> scheduled_prompts_url]
    IN [app |-> data, push |-> data]

\* No request: the push channel has not posted.
NoPost == [url |-> <<>>, Click |-> <<>>, Actions |-> <<>>, Tags |-> "none",
           Priority |-> "none", Title |-> <<>>, body |-> <<>>]

\* A POST whose Click header prefers the scheduled-prompts link and whose body
\* ends with the link
NtfyRequest_link_in_body(data) ==
    LET click_url == IF data.scheduled_prompts_url # <<>>
                     THEN data.scheduled_prompts_url ELSE data.chat_url
    IN [url |-> <<"https://ntfy.sh", "/", "my-topic">>,
        Title |-> data.title,
        Tags |-> IF data.status = "success" THEN "calendar" ELSE "warning",
        Priority |-> IF data.status = "success" THEN "default" ELSE "high",
        Click |-> click_url,
        Actions |-> <<"view, ", "Open", ", ">> \o click_url,
        body |-> data.message \o <<"\n\n">> \o click_url]

\* send_ntfy_notification: the POST for data, to the default server and the
\* user's topic; a header of <<>> is a header the request does not have.
NtfyRequest(data) ==
    LET click_url == IF data.chat_url # <<>> THEN data.chat_url
                     ELSE data.scheduled_prompts_url
        actions ==
            (IF data.chat_url # <<>>
             THEN << <<"view, ", "Open Chat", ", ">> \o data.chat_url >> ELSE <<>>)
            \o (IF data.scheduled_prompts_url # <<>>
                THEN << <<"view, ", "Scheduled Prompts", ", ">>
                        \o data.scheduled_prompts_url >>
                ELSE <<>>)
    IN [url |-> <<"https://ntfy.sh", "/", "my-topic">>,
        Title |-> IF data.title # <<>> THEN data.title
                  ELSE <<"Scheduled prompt notification">>,
        Tags |-> IF data.status = "success" THEN "calendar" ELSE "warning",
        Priority |-> IF data.status = "success" THEN "default" ELSE "high",
        Click |-> click_url,
        Actions |-> JoinWith(actions, <<"; ">>),
        body |-> IF data.message # <<>> THEN data.message
                 ELSE <<"Scheduled prompt update">>]

NewTask(prompt) ==
    [prompt |-> prompt, pc |-> "wait", stage |-> "none",
     model_id |-> NoModel, tool_ids |-> <<>>, action_tools |-> <<>>,
     mode |-> "auto", messages |-> <<>>,
     content |-> <<>>, response |-> NoResponse,
     chatter |-> FALSE, attempts |-> 0, sent |-> <<>>,
     outcome |-> "none", error |-> "None", chat_id |-> None,
     emitted |-> <<>>, push |-> "none",
     notify |-> [app |-> NoData, push |-> NoData], posted |-> NoPost,
     manual |-> FALSE]

\* The first part of a run: the user, the model and the tools are resolved and
\* the initial request is sent; or an exception is raised before any request.
Prepare(t, e) ==
    LET model_id == ResolveModel(t.prompt, e)
        tool_ids == ResolveToolIds(t.prompt, e, model_id)
        action_tools == ActionTools(tool_ids)
        mode == FunctionCallingMode(t.prompt)
        messages == BuildMessages(t.prompt, tool_ids, action_tools)
    IN IF ~e.user_exists
       THEN [t EXCEPT !.pc = "raised", !.error = "User not found"]
       ELSE IF model_id = NoModel
       THEN [t EXCEPT !.pc = "raised",
                      !.error = "Model not found and no fallback available"]
       ELSE IssueCall([t EXCEPT !.model_id = model_id, !.tool_ids = tool_ids,
                                !.action_tools = action_tools, !.mode = mode,
                                !.messages = messages],
                      "S0",
                      InitialPayload(model_id, messages, mode, action_tools))

----------------------------------------------------------------------------
(* Actions *)

Replace(i, t) ==
    IF i = Len(tasks) + 1 THEN Append(tasks, t) ELSE [tasks EXCEPT ![i] = t]

Counted(id) == [runs EXCEPT ![id] = @ + 1]

\* send_ntfy_notification posts only for a user whose settings enable ntfy.
PushConfigured(e) == e.user_exists /\ e.ntfy

\* Where a run next waits once its job row is written: on an emit when the
\* user has sessions, else on the push request, else nowhere (it returns).
AfterRecord(e) ==
    IF e.sessions # <<>> THEN "notify_app"
    ELSE IF PushConfigured(e) THEN "notify_push"
    ELSE "done"

AfterInApp(e) == IF PushConfigured(e) THEN "notify_push" ELSE "done"

\* A gate whose permits are never given back
Released_never(held, pc) == held

\* async with _execution_semaphore: the permit goes back when the run ends.
Released(held, pc) == IF pc = "done" THEN held + 1 ELSE held

\* The permits after run t went on to pc: a run the run-now route awaits is not
\* inside `async with _execution_semaphore` and has no permit to give back.
GateAfter(t, held, pc) == IF t.manual THEN held ELSE Released(held, pc)

\* The except branch with a failure that also pauses the job
RaiseInRun_paused(i, t, error, held) ==
    /\ jobs' = update_scheduled_prompt_by_id(
                   RecordError(jobs, t.prompt, error, now),
                   t.prompt.id, [enabled |-> FALSE], None, now)
    /\ runs' = Counted(t.prompt.id)
    /\ tasks' = Replace(i, [t EXCEPT !.pc = AfterRecord(env), !.outcome = "error",
                                     !.error = error,
                                     !.push = IF AfterRecord(env) = "done"
                                              THEN "skipped" ELSE @])
    /\ permits' = GateAfter(t, held, AfterRecord(env))
    /\ UNCHANGED chats

\* The except branch: the job row is updated, then the notifications follow.
RaiseInRun(i, t, error, held) ==
    /\ jobs' = RecordError(jobs, t.prompt, error, now)
    /\ runs' = Counted(t.prompt.id)
    /\ tasks' = Replace(i, [t EXCEPT !.pc = AfterRecord(env), !.outcome = "error",
                                     !.error = error,
                                     !.notify = ErrorNotifications(t, env, error),
                                     !.push = IF AfterRecord(env) = "done"
                                              THEN "skipped" ELSE @])
    /\ permits' = GateAfter(t, held, AfterRecord(env))
    /\ UNCHANGED chats

\* The end of the try body with the chat write left out
FinishRun_unsaved(i, t, held) ==
    LET saved == PersistTranscript(chats, t, now)
    IN /\ chats' = chats
       /\ jobs' = RecordSuccess(jobs, t.prompt, saved.chat_id, now)
       /\ runs' = Counted(t.prompt.id)
       /\ tasks' = Replace(i, [t EXCEPT !.pc = AfterRecord(env),
                                        !.outcome = "success",
                                        !.chat_id = saved.chat_id,
                                        !.push = IF AfterRecord(env) = "done"
                                                 THEN "skipped" ELSE @])
       /\ permits' = GateAfter(t, held, AfterRecord(env))

\* The end of the try body: the transcript is written, then the job row.
FinishRun(i, t, held) ==
    LET saved == PersistTranscript(chats, t, now)
    IN /\ chats' = saved.chats
       /\ jobs' = RecordSuccess(jobs, t.prompt, saved.chat_id, now)
       /\ runs' = Counted(t.prompt.id)
       /\ tasks' = Replace(i, [t EXCEPT !.pc = AfterRecord(env),
                                        !.outcome = "success",
                                        !.chat_id = saved.chat_id,
                                        !.notify = SuccessNotifications(
                                                       t, env, saved.chat_id),
                                        !.push = IF AfterRecord(env) = "done"
                                                 THEN "skipped" ELSE @])
       /\ permits' = GateAfter(t, held, AfterRecord(env))

\* The runs awaited by the run-now route, which are no part of the loop's batch.
IsManual(t) == t.manual

ManualRuns(batch) == SelectSeq(batch, IsManual)

\* A gate that does not count its permits
GateOpen_uncounted(i) == \A k \in 1..(i - 1) : tasks[k].pc # "wait"

\* A permit is free for the task that has waited longest.
GateOpen(i) ==
    /\ permits > 0
    /\ \A k \in 1..(i - 1) : tasks[k].pc # "wait"

\* scheduler_loop: current_time, get_due_scheduled_prompts, create_task per prompt
Poll ==
    /\ loop = "idle"
    /\ LET due_prompts == get_due_scheduled_prompts(jobs, now)
       IN tasks' = [k \in 1..Len(due_prompts) |-> NewTask(due_prompts[k])]
                   \o ManualRuns(tasks)
    /\ loop' = "gather"
    /\ UNCHANGED <<now, jobs, chats, env, permits, runs>>

\* _run_with_semaphore: the semaphore is acquired and the run goes up to its
\* first request.
Dispatch(i) ==
    /\ loop = "gather"
    /\ i \in 1..Len(tasks)
    /\ tasks[i].pc = "wait"
    /\ GateOpen(i)
    /\ \E t \in {Prepare(tasks[i], env)} :
          IF t.pc = "raised"
          THEN RaiseInRun(i, t, t.error, permits - 1)
          ELSE /\ tasks' = Replace(i, t)
               /\ permits' = permits - 1
               /\ UNCHANGED <<jobs, chats, runs>>
    /\ UNCHANGED <<now, env, loop>>

\* _call_chat_completion returns r, or raises on a status other than 200; the
\* run goes on to its next request or to its completion.
Respond(i, r) ==
    /\ i \in 1..Len(tasks)
    /\ tasks[i].pc = "call"
    /\ IF ~r.ok
       THEN RaiseInRun(i, tasks[i], "API error", permits)
       ELSE \E t \in {OnResponse(tasks[i], r)} :
               IF t.pc = "settled"
               THEN FinishRun(i, t, permits)
               ELSE /\ tasks' = Replace(i, t)
                    /\ UNCHANGED <<jobs, chats, runs, permits>>
    /\ UNCHANGED <<now, env, loop>>

\* send_user_notification without its try/except: a failing emit raises into
\* the run, whose except branch records an error
NotifyInApp_propagating(i, n) ==
    /\ i \in 1..Len(tasks)
    /\ tasks[i].pc = "notify_app"
    /\ n \in 0..Len(env.sessions)
    /\ n = Len(env.sessions) \/ env.emit_fails
    /\ IF n < Len(env.sessions)
       THEN RaiseInRun(i, [tasks[i] EXCEPT !.emitted = SubSeq(env.sessions, 1, n)],
                       "emit failed", permits)
       ELSE /\ tasks' = Replace(i, [tasks[i] EXCEPT
                    !.pc = AfterInApp(env),
                    !.emitted = SubSeq(env.sessions, 1, n),
                    !.push = IF AfterInApp(env) = "done" THEN "skipped" ELSE @])
            /\ permits' = GateAfter(tasks[i], permits, AfterInApp(env))
            /\ UNCHANGED <<jobs, chats, runs>>
    /\ UNCHANGED <<now, env, loop>>

\* send_user_notification: one emit per session id; a failing emit ends it.
NotifyInApp(i, n) ==
    /\ i \in 1..Len(tasks)
    /\ tasks[i].pc = "notify_app"
    /\ n \in 0..Len(env.sessions)
    /\ n = Len(env.sessions) \/ env.emit_fails
    /\ tasks' = Replace(i, [tasks[i] EXCEPT
            !.pc = AfterInApp(env),
            !.emitted = SubSeq(env.sessions, 1, n),
            !.push = IF AfterInApp(env) = "done" THEN "skipped" ELSE @])
    /\ permits' = GateAfter(tasks[i], permits, AfterInApp(env))
    /\ UNCHANGED <<now, jobs, chats, env, loop, runs>>

\* send_ntfy_notification posts, then the run returns or re-raises and the
\* permit is released.
NotifyPush(i, delivered) ==
    /\ i \in 1..Len(tasks)
    /\ tasks[i].pc = "notify_push"
    /\ delivered \/ env.push_fails
    /\ tasks' = Replace(i, [tasks[i] EXCEPT
            !.pc = "done",
            !.push = IF delivered THEN "sent" ELSE "failed",
            !.posted = NtfyRequest(tasks[i].notify.push)])
    /\ permits' = GateAfter(tasks[i], permits, "done")
    /\ UNCHANGED <<now, jobs, chats, env, loop, runs>>

\* asyncio.gather without return_exceptions: the first exception ends the wait
GatherReady_first_exception ==
    \/ \A k \in 1..Len(tasks) : tasks[k].pc = "done"
    \/ \E k \in 1..Len(tasks) : tasks[k].pc = "done" /\ tasks[k].outcome = "error"

\* asyncio.gather(*tasks, return_exceptions=True) returns
GatherReady == \A k \in 1..Len(tasks) : tasks[k].manual \/ tasks[k].pc = "done"

\* A gather that returns while runs of the batch have not finished
Gather_early ==
    /\ loop = "gather"
    /\ loop' = "sleep"
    /\ UNCHANGED <<now, jobs, chats, env, tasks, permits, runs>>

Gather ==
    /\ loop = "gather"
    /\ GatherReady
    /\ loop' = "sleep"
    /\ UNCHANGED <<now, jobs, chats, env, tasks, permits, runs>>

\* asyncio.sleep(SCHEDULER_CHECK_INTERVAL)
Sleep ==
    /\ loop = "sleep"
    /\ now + SCHEDULER_CHECK_INTERVAL <= MaxTime
    /\ now' = now + SCHEDULER_CHECK_INTERVAL
    /\ loop' = "idle"
    /\ tasks' = ManualRuns(tasks)
    /\ UNCHANGED <<jobs, chats, env, permits, runs>>

\* Time passes while a request is in flight.
Tick ==
    /\ \E k \in 1..Len(tasks) : tasks[k].pc = "call"
    /\ now + TickStep <= MaxTime
    /\ now' = now + TickStep
    /\ UNCHANGED <<jobs, chats, env, loop, tasks, permits, runs>>

----------------------------------------------------------------------------
(* Initial states *)

PlainResponse ==
    [ok |-> TRUE, content |-> <<"hello">>, reasoning_content |-> <<>>,
     tool_calls |-> FALSE, sources |-> <<>>]

FailedResponse == [NoResponse EXCEPT !.ok = FALSE]

\* The runs a job has behind it when the model starts.
InitialRunCount(id) == id - 1

Row(id, cron, tz, once, enabled, due) ==
    [id |-> id, user_id |-> "u1", name |-> <<"job">>,
     cron_expression |-> cron, timezone |-> tz, enabled |-> enabled,
     model_id |-> "m1", system_prompt |-> <<>>, prompt |-> <<"hi">>,
     chat_id |-> None, create_new_chat |-> TRUE, run_once |-> once,
     tool_ids |-> <<>>, function_calling_mode |-> "default",
     last_run_at |-> IF InitialRunCount(id) > 0
                     THEN StartTime - SCHEDULER_CHECK_INTERVAL ELSE None,
     next_run_at |-> calculate_next_run(cron, tz,
                        IF due THEN StartTime - SCHEDULER_CHECK_INTERVAL
                        ELSE StartTime),
     last_status |-> IF InitialRunCount(id) > 0 THEN "success" ELSE "None",
     last_error |-> "None", run_count |-> InitialRunCount(id),
     updated_at |-> StartTime - SCHEDULER_CHECK_INTERVAL]

\* The rows a job of the loop's specification starts as.
Rows(id) ==
    << Row(id, "* * * * *", "UTC", FALSE, TRUE, TRUE),
       Row(id, "*/2 * * * *", "Asia/Kolkata", FALSE, TRUE, TRUE),
       Row(id, "0 * * * *", "Mars/Phobos", TRUE, TRUE, TRUE),
       Row(id, "* * * * *", "UTC", TRUE, TRUE, FALSE),
       Row(id, "* * * * *", "UTC", FALSE, FALSE, TRUE) >>

BaseEnv ==
    [user_exists |-> TRUE, sessions |-> <<"sid1", "sid2">>, ntfy |-> TRUE,
     models |-> << [id |-> "m1", toolIds |-> <<>>] >>, user_models |-> <<>>,
     backend |-> {PlainResponse, FailedResponse},
     emit_fails |-> FALSE, push_fails |-> FALSE,
     webui_url |-> <<"https://owui.example.com", "/">>]

\* The chat the job is linked to before the run.
SeedChat(deleted) ==
    [title |-> <<"Earlier">>,
     messages |-> << [role |-> "user", content |-> <<"earlier">>,
                      timestamp |-> StartTime - SCHEDULER_CHECK_INTERVAL,
                      models |-> <<"m1">>, sources |-> <<>>,
                      citations |-> <<>>, note_attachments |-> <<>>] >>,
     models |-> <<"m1">>, tool_ids |-> <<>>, user_id |-> "u1",
     deleted |-> deleted]

InitLoop(ids) ==
    /\ now = StartTime
    /\ loop = "idle"
    /\ tasks = <<>>
    /\ permits = GateSize
    /\ runs = [id \in ids |-> 0]

Init ==
    /\ InitLoop(1..NumJobs)
    /\ chats = <<>>
    /\ env \in {BaseEnv, [BaseEnv EXCEPT !.user_exists = FALSE]}
    /\ \E pick \in [1..NumJobs -> 1..Len(Rows(1))] :
          /\ \A a, b \in 1..NumJobs : a <= b => pick[a] <= pick[b]
          /\ jobs = [id \in 1..NumJobs |-> Rows(id)[pick[id]]]

Next ==
    \/ Poll
    \/ \E i \in 1..Len(tasks) : Dispatch(i)
    \/ \E i \in 1..Len(tasks) : \E r \in env.backend : Respond(i, r)
    \/ \E i \in 1..Len(tasks) : \E n \in 0..Len(env.sessions) : NotifyInApp(i, n)
    \/ \E i \in 1..Len(tasks) : \E delivered \in BOOLEAN : NotifyPush(i, delivered)
    \/ Gather
    \/ Sleep
    \/ Tick

Spec == Init /\ [][Next]_vars

----------------------------------------------------------------------------
(* One run of one job against a backend that may answer each request with
   any response of PipeBackend. *)

EmptyToolCallsResponse == [NoResponse EXCEPT !.tool_calls = TRUE]

BlankResponse == NoResponse

ReasonedResponse == [NoResponse EXCEPT !.reasoning_content = <<"thinking">>]

RawToolResponse ==
    [NoResponse EXCEPT !.content = <<"{", "tool", ":", "\"get_note\"", "}">>]

\* Tool-call chatter in a block of its own, then the answer
ChatterThenAnswerResponse ==
    [NoResponse EXCEPT !.content =
        <<"to=", "notes_manager", " ", "commentary", "\n\n", "Buy", " ", "milk.">>]

\* A JSON object whose tool_calls list is empty
EmptyToolListResponse ==
    [NoResponse EXCEPT !.content = <<"{", "tool_call", "s", ":", "[]", "}">>]

ChatterResponse ==
    [NoResponse EXCEPT !.content =
        <<"to=", "Notes_Manager", " ", "commentary", " ", "JSON">>]

ListedResponse ==
    [NoResponse EXCEPT
        !.content = <<"You", " ", "have", " ", "one", " ", "note.">>,
        !.sources = << [name |-> <<"notes_manager", "/", "list_my_notes">>,
                        document |-> << <<"uuid-1", " ", "Groceries">> >>,
                        metadata |-> <<>>] >>]

FetchedResponse ==
    [NoResponse EXCEPT
        !.content = <<"Buy", " ", "milk.">>,
        !.sources = << [name |-> <<"notes_manager", "/", "get_note">>,
                        document |-> << <<"milk">> >>,
                        metadata |-> << [note_id |-> "uuid-1"] >>] >>]

\* One reply with both calls made: the listing and the fetch of the listed id
ListedAndFetchedResponse ==
    [FetchedResponse EXCEPT !.sources = ListedResponse.sources \o @]

\* The listing, and a get_note call with the note's title for its id
FetchedByTitleResponse ==
    [NoResponse EXCEPT
        !.content = <<"I", " ", "could", " ", "not", " ", "open", " ", "it.">>,
        !.sources = ListedResponse.sources \o
                    << [name |-> <<"notes_manager", "/", "get_note">>,
                        document |-> << <<"no", " ", "such", " ", "id">> >>,
                        metadata |-> << [note_id |-> "Groceries"] >>] >>]

\* A search that names six notes, one of them twice
ManyListedResponse ==
    [NoResponse EXCEPT
        !.content = <<"You", " ", "have", " ", "six", " ", "notes.">>,
        !.sources = << [name |-> <<"search_notes">>,
                        document |-> << <<"uuid-3", " ", "uuid-1", " ", "uuid-3">>,
                                        <<"uuid-2", " ", "uuid-6", " ", "uuid-5",
                                          " ", "uuid-4">> >>,
                        metadata |-> <<>>] >>]

PipeBackend ==
    {PlainResponse, FailedResponse, EmptyToolCallsResponse, BlankResponse,
     ReasonedResponse, RawToolResponse, EmptyToolListResponse, ChatterResponse,
     ChatterThenAnswerResponse, ListedResponse, FetchedResponse}

PipeTools ==
    { <<>>,
      << <<"notes_manager">> >>,
      << <<"my_", "Prompt_Scheduler">>, <<"notes_manager">> >>,
      << <<"prompt_scheduler">> >> }

PipeModes == {"default", "native", "auto", "None"}

\* How the job is linked to a chat when the run starts.
PipeLinks == {"new", "append", "deleted", "unlinked"}

PipeEnvs ==
    LET online == [BaseEnv EXCEPT !.backend = PipeBackend]
    IN { online,
         [online EXCEPT !.emit_fails = TRUE, !.push_fails = TRUE,
                        !.webui_url = <<>>],
         [online EXCEPT !.sessions = <<>>, !.ntfy = FALSE,
                        !.backend = @ \cup {ListedAndFetchedResponse,
                                            FetchedByTitleResponse,
                                            ManyListedResponse}],
         [online EXCEPT !.models = << [id |-> "m2",
                                       toolIds |-> << <<"Notes_Manager">>,
                                                      <<"Prompt_Scheduler">> >>],
                                      [id |-> "m3", toolIds |-> <<>>] >>,
                        !.user_models = <<"m3", "m2">>],
         [online EXCEPT !.user_exists = FALSE, !.webui_url = <<" ">>],
         [online EXCEPT !.models = <<>>] }

InitPipe ==
    /\ now = StartTime
    /\ loop = "idle"
    /\ tasks = <<>>
    /\ permits = GateSize
    /\ runs = [id \in {1} |-> 0]
    /\ env \in PipeEnvs
    /\ \E link \in PipeLinks, once \in BOOLEAN, tool_ids \in PipeTools,
          mode \in PipeModes :
          /\ chats = <<SeedChat(link = "deleted")>>
          /\ jobs = [id \in {1} |->
                [Row(id, "0 * * * *", "UTC", once, TRUE, TRUE) EXCEPT
                    !.chat_id = IF link = "unlinked" THEN None ELSE 1,
                    !.create_new_chat = (link = "new"),
                    !.system_prompt = IF mode = "auto" THEN <<"Be brief.">>
                                      ELSE <<>>,
                    !.tool_ids = tool_ids,
                    !.function_calling_mode = mode]]

NextPipe ==
    \/ Poll
    \/ \E i \in 1..Len(tasks) : Dispatch(i)
    \/ \E i \in 1..Len(tasks) : \E r \in env.backend : Respond(i, r)
    \/ \E i \in 1..Len(tasks) : \E n \in 0..Len(env.sessions) : NotifyInApp(i, n)
    \/ \E i \in 1..Len(tasks) : \E delivered \in BOOLEAN : NotifyPush(i, delivered)
    \/ Gather
    \/ Sleep

SpecPipe == InitPipe /\ [][NextPipe]_vars

----------------------------------------------------------------------------
(* A batch larger than the gate: GateJobs due jobs, each linked to a chat of
   its own, none of them due again within MaxTime, and a clock that moves
   only while the loop sleeps. *)

\* The environments of the gate's specification: requests that may fail for
\* a user who is offline, or requests that succeed for a user with a session.
GateEnvs ==
    { [BaseEnv EXCEPT !.sessions = <<>>, !.ntfy = FALSE],
      [BaseEnv EXCEPT !.sessions = <<"sid1">>, !.ntfy = FALSE,
                      !.backend = {PlainResponse}] }

InitGate ==
    /\ InitLoop(1..GateJobs)
    /\ env \in GateEnvs
    /\ chats = [id \in 1..GateJobs |-> SeedChat(FALSE)]
    /\ jobs = [id \in 1..GateJobs |->
                 [Row(id, "0 * * * *", "UTC", id % 2 = 1, TRUE, TRUE) EXCEPT
                     !.chat_id = id, !.create_new_chat = FALSE]]

NextGate ==
    \/ Poll
    \/ \E i \in 1..Len(tasks) : Dispatch(i)
    \/ \E i \in 1..Len(tasks) : \E r \in env.backend : Respond(i, r)
    \/ \E i \in 1..Len(tasks) : \E n \in 0..Len(env.sessions) : NotifyInApp(i, n)
    \/ Gather
    \/ Sleep

SpecGate == InitGate /\ [][NextGate]_vars

\* Every request is answered or fails, every notification call returns, and
\* the event loop runs some task that can run.
\* A run-now route that goes through the gate like a run of the loop
run_scheduled_prompt_now_gated(id) ==
    /\ id \in DOMAIN jobs
    /\ Len(ManualRuns(tasks)) < MaxManualRuns
    /\ permits > 0
    /\ \E t \in {Prepare([NewTask(jobs[id]) EXCEPT !.manual = TRUE], env)} :
          IF t.pc = "raised"
          THEN RaiseInRun(Len(tasks) + 1, t, t.error, permits - 1)
          ELSE /\ tasks' = Replace(Len(tasks) + 1, t)
               /\ permits' = permits - 1
               /\ UNCHANGED <<jobs, chats, runs>>
    /\ UNCHANGED <<now, env, loop>>

\* run_scheduled_prompt_now: the row is read and execute_scheduled_prompt is
\* awaited with it, up to its first request; the later steps of the run are
\* those of any run.
run_scheduled_prompt_now(id) ==
    /\ id \in DOMAIN jobs
    /\ Len(ManualRuns(tasks)) < MaxManualRuns
    /\ \E t \in {Prepare([NewTask(jobs[id]) EXCEPT !.manual = TRUE], env)} :
          IF t.pc = "raised"
          THEN RaiseInRun(Len(tasks) + 1, t, t.error, permits)
          ELSE /\ tasks' = Replace(Len(tasks) + 1, t)
               /\ UNCHANGED <<jobs, chats, runs, permits>>
    /\ UNCHANGED <<now, env, loop>>

\* The loop of the gate's specification beside a user of the run-now route.
NextManual ==
    \/ Poll
    \/ \E i \in 1..Len(tasks) : Dispatch(i)
    \/ \E i \in 1..Len(tasks) : \E r \in env.backend : Respond(i, r)
    \/ \E i \in 1..Len(tasks) : \E n \in 0..Len(env.sessions) : NotifyInApp(i, n)
    \/ Gather
    \/ Sleep
    \/ \E id \in DOMAIN jobs : run_scheduled_prompt_now(id)

SpecManual == InitGate /\ [][NextManual]_vars

FairGate ==
    /\ WF_vars(Poll)
    /\ WF_vars(Gather)
    /\ WF_vars(\E i \in 1..Len(tasks) : Dispatch(i))
    /\ WF_vars(\E i \in 1..Len(tasks) : \E r \in env.backend : Respond(i, r))
    /\ WF_vars(\E i \in 1..Len(tasks) : \E n \in 0..Len(env.sessions) : NotifyInApp(i, n))

FairSpecGate == SpecGate /\ FairGate

\* The run of task k holds a permit.
InGate(k) == tasks[k].pc \in {"call", "notify_app", "notify_push"}

----------------------------------------------------------------------------
(* The life of the process: the query of a poll may raise, stop_scheduler
   cancels the loop's task, the process may stop at any point and be started
   again.  loop = "stopped" is _scheduler_running = False with _scheduler_task
   = None; loop = "down" is a process that no longer runs.  After either,
   tasks keeps what was in flight as a record: pc "cancelled" or "lost" is a
   run that no code executes any more. *)

\* _scheduler_running and _scheduler_task is not None
is_scheduler_running == loop \in {"idle", "gather", "sleep"}

\* A loop without its except branch: the exception of the query ends the task
PollFails_unhandled ==
    /\ loop = "idle"
    /\ loop' = "failed"
    /\ tasks' = ManualRuns(tasks)
    /\ UNCHANGED <<now, jobs, chats, env, permits, runs>>

\* scheduler_loop: get_due_scheduled_prompts raises; the except branch logs and
\* the loop goes on to its sleep.
PollFails ==
    /\ loop = "idle"
    /\ loop' = "sleep"
    /\ tasks' = ManualRuns(tasks)
    /\ UNCHANGED <<now, jobs, chats, env, permits, runs>>

\* The runs of the batch once every one that has not returned is ended at the
\* await it waits on.
Abandoned(pc) ==
    [k \in 1..Len(tasks) |->
        IF tasks[k].pc = "done" \/ (tasks[k].manual /\ pc = "cancelled")
        THEN tasks[k] ELSE [tasks[k] EXCEPT !.pc = pc]]

\* stop_scheduler: the flag is cleared and the loop's task cancelled.  The
\* cancellation goes through gather to every task of the batch that is not
\* done; CancelledError is no Exception, so neither the except branch of the
\* run nor the one of the loop runs, and each `async with` gives its permit
\* back.
stop_scheduler ==
    /\ is_scheduler_running
    /\ loop' = "stopped"
    /\ tasks' = Abandoned("cancelled")
    /\ permits' = GateSize
    /\ UNCHANGED <<now, jobs, chats, env, runs>>

\* The process stops while every run waits on a request or a notification.
Crash ==
    /\ is_scheduler_running
    /\ loop' = "down"
    /\ tasks' = Abandoned("lost")
    /\ permits' = GateSize
    /\ UNCHANGED <<now, jobs, chats, env, runs>>

\* The points of the end of the try body at which the process can stop: before
\* the chat is written, before update_execution_status, and (run_once) before
\* update_scheduled_prompt_by_id.
CrashPoints == {"before_chat", "before_status", "before_disable"}

\* The process stops after the last request of run i returned r, inside the
\* (synchronous) statements that write the chat and the job row.
CrashInCompletion(i, r, point) ==
    /\ is_scheduler_running
    /\ i \in 1..Len(tasks)
    /\ tasks[i].pc = "call"
    /\ r.ok
    /\ point \in CrashPoints
    /\ \E t \in {OnResponse(tasks[i], r)} :
          /\ t.pc = "settled"
          /\ point = "before_disable" => t.prompt.run_once
          /\ LET saved == PersistTranscript(chats, t, now)
             IN /\ chats' = IF point = "before_chat" THEN chats ELSE saved.chats
                /\ jobs' = IF point = "before_disable"
                           THEN update_execution_status(jobs, t.prompt.id,
                                    "success", "None", saved.chat_id, None, now)
                           ELSE jobs
                /\ runs' = IF point = "before_disable"
                           THEN Counted(t.prompt.id) ELSE runs
                /\ tasks' = [Abandoned("lost") EXCEPT
                               ![i] = [t EXCEPT !.pc = "lost",
                                                !.stage = point]]
    /\ loop' = "down"
    /\ permits' = GateSize
    /\ UNCHANGED <<now, env>>

\* A start_scheduler that creates a loop task whether or not one exists
start_scheduler_unguarded(away) ==
    /\ away > 0
    /\ now + away <= MaxTime
    /\ now' = now + away
    /\ loop' = "idle"
    /\ permits' = GateSize
    /\ UNCHANGED <<jobs, chats, env, tasks, runs>>

\* start_scheduler: a loop task is created when there is none, some time
\* after the last one ended.
start_scheduler(away) ==
    /\ ~is_scheduler_running
    /\ away > 0
    /\ now + away <= MaxTime
    /\ now' = now + away
    /\ loop' = "idle"
    /\ permits' = GateSize
    /\ UNCHANGED <<jobs, chats, env, tasks, runs>>

\* A user with one open session and no push settings.
LifeEnv ==
    [BaseEnv EXCEPT !.sessions = <<"sid1">>, !.ntfy = FALSE]

\* Two job tables: an every-minute job beside a one-off job, both due; and a
\* job of every other minute beside a one-off job that is not due yet.
LifeStores ==
    { << Rows(1)[1], Rows(2)[3] >>, << Rows(1)[2], Rows(2)[4] >> }

InitLife ==
    /\ jobs \in LifeStores
    /\ InitLoop(DOMAIN jobs)
    /\ chats = <<>>
    /\ env = LifeEnv

NextLife ==
    \/ Poll
    \/ PollFails
    \/ \E i \in 1..Len(tasks) : Dispatch(i)
    \/ \E i \in 1..Len(tasks) : \E r \in env.backend : Respond(i, r)
    \/ \E i \in 1..Len(tasks) : \E n \in 0..Len(env.sessions) : NotifyInApp(i, n)
    \/ Gather
    \/ Sleep
    \/ stop_scheduler
    \/ Crash
    \/ \E i \in 1..Len(tasks) : \E r \in env.backend : \E point \in CrashPoints :
          CrashInCompletion(i, r, point)
    \/ \E away \in {TickStep, SCHEDULER_CHECK_INTERVAL} : start_scheduler(away)

SpecLife == InitLife /\ [][NextLife]_vars

\* One process from its start to stop_scheduler.
NextStop ==
    \/ Poll
    \/ PollFails
    \/ \E i \in 1..Len(tasks) : Dispatch(i)
    \/ \E i \in 1..Len(tasks) : \E r \in env.backend : Respond(i, r)
    \/ \E i \in 1..Len(tasks) : \E n \in 0..Len(env.sessions) : NotifyInApp(i, n)
    \/ Gather
    \/ Sleep
    \/ stop_scheduler

SpecStop == InitLife /\ [][NextStop]_vars

\* The event loop runs every task that can run: the query of a poll returns
\* or raises, every request and every emit returns or fails, gather returns
\* once its tasks are done, the sleep ends.  Nothing makes stop_scheduler
\* happen.
FairStop ==
    /\ WF_vars(Poll \/ PollFails)
    /\ WF_vars(Gather)
    /\ WF_vars(Sleep)
    /\ WF_vars(\E i \in 1..Len(tasks) : Dispatch(i))
    /\ WF_vars(\E i \in 1..Len(tasks) : \E r \in env.backend : Respond(i, r))
    /\ WF_vars(\E i \in 1..Len(tasks) : \E n \in 0..Len(env.sessions) :
                  NotifyInApp(i, n))

FairSpecStop == SpecStop /\ FairStop

----------------------------------------------------------------------------
(* The routes by which a user edits a job while the loop runs. *)

\* The forms a user posts to the update route: the fields that are not None.
EditForms ==
    { [enabled |-> FALSE],
      [enabled |-> TRUE],
      [run_once |-> FALSE],
      [cron_expression |-> "*/2 * * * *", timezone |-> "Asia/Kolkata"],
      [prompt |-> <<"bye">>] }

\* The edits of a behaviour are bounded: a job is edited at most once at one
\* reading of the clock, and not at the reading at which a run wrote its row.
EditAllowed(id) == jobs[id].updated_at < now

\* POST /{id}: next_run_at is recomputed when the form has a cron expression
\* or a timezone, from the form's value or else the stored one.
update_scheduled_prompt_route(id, form_data) ==
    /\ id \in DOMAIN jobs
    /\ EditAllowed(id)
    /\ LET prompt == jobs[id]
           cron == IF "cron_expression" \in DOMAIN form_data
                   THEN form_data.cron_expression ELSE prompt.cron_expression
           tz == IF "timezone" \in DOMAIN form_data
                 THEN form_data.timezone ELSE prompt.timezone
           next_run_at == IF {"cron_expression", "timezone"} \cap DOMAIN form_data # {}
                          THEN calculate_next_run(cron, tz, now) ELSE None
       IN jobs' = update_scheduled_prompt_by_id(jobs, id, form_data, next_run_at, now)
    /\ UNCHANGED <<now, chats, env, loop, tasks, permits, runs>>

\* POST /{id}/toggle: enabled is flipped; next_run_at is recomputed when the
\* job becomes enabled.
toggle_scheduled_prompt(id) ==
    /\ id \in DOMAIN jobs
    /\ EditAllowed(id)
    /\ LET prompt == jobs[id]
           new_enabled == ~prompt.enabled
           next_run_at == IF new_enabled
                          THEN calculate_next_run(prompt.cron_expression,
                                                  prompt.timezone, now)
                          ELSE None
       IN jobs' = update_scheduled_prompt_by_id(jobs, id, [enabled |-> new_enabled],
                                                next_run_at, now)
    /\ UNCHANGED <<now, chats, env, loop, tasks, permits, runs>>

InitEdit ==
    /\ jobs \in LifeStores
    /\ InitLoop(DOMAIN jobs)
    /\ chats = <<>>
    /\ env = LifeEnv

NextEdit ==
    \/ Poll
    \/ \E i \in 1..Len(tasks) : Dispatch(i)
    \/ \E i \in 1..Len(tasks) : \E r \in env.backend : Respond(i, r)
    \/ \E i \in 1..Len(tasks) : \E n \in 0..Len(env.sessions) : NotifyInApp(i, n)
    \/ Gather
    \/ Sleep
    \/ \E id \in DOMAIN jobs : \E form_data \in EditForms :
          update_scheduled_prompt_route(id, form_data)
    \/ \E id \in DOMAIN jobs : toggle_scheduled_prompt(id)

SpecEdit == InitEdit /\ [][NextEdit]_vars

----------------------------------------------------------------------------
(* Properties *)

\* C1: after every completed run of a run_once job, whether it succeeded or
\* failed, the stored row has enabled = false and next_run_at = null.
OneShotCleared ==
    \A j \in DOMAIN jobs :
        (jobs[j].run_once /\ runs[j] > 0) =>
            (jobs[j].enabled = FALSE /\ jobs[j].next_run_at = None)

\* n is the first fire instant of the expression strictly after t.
IsNextFire(expr, timezone, t, n) ==
    /\ n > t
    /\ n % SecondsPerMinute = 0
    /\ FiresAtMinute(expr, timezone, n \div SecondsPerMinute)
    /\ \A m \in ((t \div SecondsPerMinute) + 1)..((n \div SecondsPerMinute) - 1) :
          ~FiresAtMinute(expr, timezone, m)

\* C2: every successful run of a recurring job stores as next_run_at the
\* first fire instant of the job's cron expression in the job's timezone after
\* the instant the run is recorded, and that instant is strictly later.
RecurringSuccessAdvances ==
    [][\A k \in 1..Len(tasks) :
          (/\ Len(tasks') = Len(tasks)
           /\ tasks[k].outcome = "none"
           /\ tasks'[k].outcome = "success"
           /\ ~tasks[k].prompt.run_once)
          => LET j == tasks[k].prompt.id
             IN /\ jobs'[j].last_run_at = now
                /\ jobs'[j].next_run_at > now
                /\ IsNextFire(tasks[k].prompt.cron_expression,
                              tasks[k].prompt.timezone,
                              now, jobs'[j].next_run_at)]_vars

\* A recurring job in a zone off UTC whose run was recorded inside a minute.
RecurringSuccessSeen ==
    \E j \in DOMAIN jobs :
        /\ ~jobs[j].run_once
        /\ runs[j] > 0
        /\ jobs[j].last_status = "success"
        /\ jobs[j].timezone = "Asia/Kolkata"
        /\ jobs[j].last_run_at % SecondsPerMinute # 0
        /\ jobs[j].next_run_at > jobs[j].last_run_at

AssistantContentNonEmpty ==
    \A c \in 1..Len(chats) : \A m \in 1..Len(chats[c].messages) :
        chats[c].messages[m].role = "assistant" =>
            chats[c].messages[m].content # <<>>

\* C5: at every moment at most GateSize runs dispatched by the loop are inside
\* the gate, so at most GateSize requests of the loop are in flight, however
\* many jobs the batch has.
GateBounded ==
    LET inside == {k \in 1..Len(tasks) : InGate(k)}
        calling == {k \in 1..Len(tasks) : tasks[k].pc = "call"}
    IN /\ Cardinality(inside) <= GateSize
       /\ Cardinality(calling) <= GateSize
       /\ permits = GateSize - Cardinality(inside)

\* The gate is full of runs waiting on a request while another task waits.
GateFullSeen ==
    /\ Len(tasks) > GateSize
    /\ Cardinality({k \in 1..Len(tasks) : tasks[k].pc = "call"}) = GateSize
    /\ \E k \in 1..Len(tasks) : tasks[k].pc = "wait"

\* C6: when every request and notification call returns or fails, every job of
\* a poll leaves the gate, completed or errored, and gives its permit back: a
\* batch larger than the gate completes and the loop reaches its next sleep.
GateDrains ==
    (loop = "gather") ~>
        (/\ loop = "sleep"
         /\ permits = GateSize
         /\ \A k \in 1..Len(tasks) :
               tasks[k].pc = "done" /\ tasks[k].outcome \in {"success", "error"})

\* A batch larger than the gate is over, one of its runs having failed.
LargeBatchDrained ==
    /\ loop = "sleep"
    /\ Len(tasks) = GateJobs
    /\ Len(tasks) > GateSize
    /\ permits = GateSize
    /\ \E k \in 1..Len(tasks) : tasks[k].outcome = "error"
    /\ \E k \in 1..Len(tasks) : tasks[k].outcome = "success"

\* The in-app notification was sent to every session of the user.
InAppFired(t) == env.emit_fails \/ t.emitted = env.sessions

\* The push notification was posted when the user has push configured.
PushFired(t) ==
    IF PushConfigured(env)
    THEN t.push = "sent" \/ (env.push_fails /\ t.push = "failed")
    ELSE t.push = "skipped"

\* C7: an exception raised in one run does not cancel or skip another run of
\* the batch: when the loop goes to sleep every run of the batch has made its
\* status update and its notifications.
SiblingsComplete ==
    (loop = "sleep") =>
        \A k \in 1..Len(tasks) :
            /\ tasks[k].pc = "done"
            /\ tasks[k].outcome \in {"success", "error"}
            /\ jobs[tasks[k].prompt.id].last_status = tasks[k].outcome
            /\ jobs[tasks[k].prompt.id].last_run_at >= tasks[k].prompt.next_run_at
            /\ InAppFired(tasks[k])
            /\ PushFired(tasks[k])

\* A run succeeded after a sibling of its batch had raised.
SiblingOutlivedFailure ==
    /\ loop = "sleep"
    /\ \E a, b \in 1..Len(tasks) :
          /\ tasks[a].outcome = "error"
          /\ tasks[b].outcome = "success"
          /\ jobs[tasks[b].prompt.id].last_run_at > jobs[tasks[a].prompt.id].last_run_at

\* C8: run_count never decreases and goes up by exactly one per run, success
\* or error: after k runs it is its initial value plus k.
RunCountTracksRuns ==
    [][\A j \in DOMAIN jobs :
          /\ jobs'[j].run_count = InitialRunCount(j) + runs'[j]
          /\ jobs'[j].run_count - jobs[j].run_count = runs'[j] - runs[j]
          /\ jobs'[j].run_count - jobs[j].run_count \in {0, 1}]_vars

\* A job that ran twice, the later run a failure, and a one-off job that ran.
TwoRunsSeen ==
    /\ \E j \in DOMAIN jobs :
          /\ runs[j] = 2
          /\ jobs[j].run_count = InitialRunCount(j) + 2
          /\ jobs[j].last_status = "error"
    /\ \E j \in DOMAIN jobs : jobs[j].run_once /\ runs[j] = 1

\* A tool id whose lowercase form contains prompt_scheduler.
NamesScheduler(tool_id) ==
    \E k \in 1..Len(tool_id) : Lower(tool_id[k]) = "prompt_scheduler"

\* The tool list a run starts from: the job's, else the resolved model's.
ConfiguredTools(t) ==
    IF t.prompt.tool_ids # <<>> THEN t.prompt.tool_ids
    ELSE LET owners == {k \in 1..Len(env.models) : env.models[k].id = t.model_id}
         IN IF owners = {} THEN <<>>
            ELSE env.models[CHOOSE k \in owners : TRUE].toolIds

\* C9: no request of a run and no chat the run persists carries a tool id
\* whose lowercase form contains prompt_scheduler; action_tools is the job's
\* (or the model's) tool list without exactly those ids, in the same order.
SchedulerToolExcluded ==
    \A k \in 1..Len(tasks) :
        tasks[k].sent # <<>> =>
            /\ tasks[k].action_tools =
                  SelectSeq(ConfiguredTools(tasks[k]), LAMBDA x : ~NamesScheduler(x))
            /\ \A q \in 1..Len(tasks[k].sent) :
                  \A x \in 1..Len(tasks[k].sent[q].tool_ids) :
                      ~NamesScheduler(tasks[k].sent[q].tool_ids[x])
            /\ \A c \in 2..Len(chats) :
                  \A x \in 1..Len(chats[c].tool_ids) :
                      ~NamesScheduler(chats[c].tool_ids[x])

\* A run configured with the scheduler tool beside another one sent a
\* follow-up request and created a chat with the other tool only.
SchedulerToolDropped ==
    \E k \in 1..Len(tasks) :
        /\ \E x \in 1..Len(ConfiguredTools(tasks[k])) :
              NamesScheduler(ConfiguredTools(tasks[k])[x])
        /\ tasks[k].action_tools # <<>>
        /\ Len(tasks[k].sent) >= 2
        /\ tasks[k].sent[2].tool_ids = tasks[k].action_tools
        /\ Len(chats) = 2
        /\ chats[2].tool_ids = tasks[k].action_tools

\* C10: when a request of a run, the initial one or a follow-up, fails or
\* returns a status other than 200, the run creates or changes no chat, the
\* job is recorded with last_status error and a last_error, and the error
\* notification is fired on both channels.
FailedCallRecorded ==
    \A k \in 1..Len(tasks) :
        (tasks[k].outcome = "error" /\ tasks[k].sent # <<>>) =>
            /\ Len(chats) = 1
            /\ chats[1] = SeedChat(chats[1].deleted)
            /\ jobs[tasks[k].prompt.id].last_status = "error"
            /\ jobs[tasks[k].prompt.id].last_error # "None"
            /\ tasks[k].pc = "done" => (InAppFired(tasks[k]) /\ PushFired(tasks[k]))

\* A follow-up request failed for a job linked to a chat, and the user was
\* told on both channels.
FollowupFailureSeen ==
    \E k \in 1..Len(tasks) :
        /\ tasks[k].outcome = "error"
        /\ Len(tasks[k].sent) >= 2
        /\ tasks[k].pc = "done"
        /\ tasks[k].prompt.chat_id = 1
        /\ ~tasks[k].prompt.create_new_chat
        /\ ~chats[1].deleted
        /\ tasks[k].emitted = env.sessions
        /\ Len(tasks[k].emitted) = 2
        /\ tasks[k].push = "sent"

\* C11 as stated: a recurring job whose run failed in one tick is not among
\* the jobs the immediately following poll dispatches.
FailedJobSkipsNextPoll ==
    \A k \in 1..Len(tasks) :
        (tasks[k].pc = "wait" /\ ~tasks[k].prompt.run_once) =>
            ~(/\ tasks[k].prompt.last_status = "error"
              /\ tasks[k].prompt.last_run_at = now - SCHEDULER_CHECK_INTERVAL)

\* C11, amended: a failed run of a recurring job leaves the job enabled,
\* records last_status = error with the error text, and stores as next_run_at
\* the first fire instant of the job's cron expression after the instant of
\* the failure, so the job is not due again before that instant.
RecurringFailureAdvances ==
    [][\A k \in 1..Len(tasks) :
          (/\ Len(tasks') = Len(tasks)
           /\ tasks[k].outcome = "none"
           /\ tasks'[k].outcome = "error"
           /\ ~tasks[k].prompt.run_once)
          => LET j == tasks[k].prompt.id
             IN /\ jobs'[j].enabled = jobs[j].enabled
                /\ jobs'[j].last_status = "error"
                /\ jobs'[j].last_error = tasks'[k].error
                /\ jobs'[j].last_error # "None"
                /\ IsNextFire(tasks[k].prompt.cron_expression,
                              tasks[k].prompt.timezone,
                              now, jobs'[j].next_run_at)
                /\ \A at \in now..(jobs'[j].next_run_at - 1) :
                      ~IsDue(jobs'[j], at)]_vars

\* A recurring job failed, is still enabled, and waits for a later minute.
RecurringFailureSeen ==
    \E j \in DOMAIN jobs :
        /\ ~jobs[j].run_once
        /\ jobs[j].enabled
        /\ runs[j] > 0
        /\ jobs[j].last_status = "error"
        /\ jobs[j].last_error = "API error"
        /\ jobs[j].next_run_at > jobs[j].last_run_at
        /\ jobs[j].last_run_at = now

\* The chat holds the transcript of a run recorded at the instant at: the
\* prompt as a user message and after it an assistant message.
HoldsTranscript(chat, prompt, at) ==
    \E m \in 1..(Len(chat.messages) - 1) :
        /\ chat.messages[m].role = "user"
        /\ chat.messages[m].content = prompt
        /\ chat.messages[m].timestamp = at
        /\ chat.messages[m + 1].role = "assistant"
        /\ chat.messages[m + 1].timestamp = at

StopLetsRunsFinish ==
    /\ [][loop = "stopped" => loop' = "stopped"]_vars
    /\ \A k \in 1..NumJobs :
          (loop = "stopped" /\ k <= Len(tasks) /\ tasks[k].sent # <<>>)
              ~> (k <= Len(tasks) /\ tasks[k].outcome \in {"success", "error"})

\* The process stopped in run k after its last request had succeeded and
\* before update_execution_status.
Interrupted(k) ==
    /\ tasks[k].pc = "lost"
    /\ tasks[k].stage \in {"before_chat", "before_status"}

\* C14: a process that stops after the model call of a run succeeded and
\* before the job row is updated leaves the row as the poll had read it,
\* enabled and with the same next_run_at; the first poll after the restart
\* returns the job and creates a task for it again.
InterruptedRunIsDueAgain ==
    [][/\ \A k \in 1..Len(tasks) :
            (is_scheduler_running /\ loop' = "down" /\ Len(tasks') = Len(tasks)
                /\ tasks[k].pc = "call" /\ Interrupted(k)')
            => LET j == tasks[k].prompt.id
               IN /\ jobs'[j] = jobs[j]
                  /\ jobs'[j].enabled = tasks[k].prompt.enabled
                  /\ jobs'[j].next_run_at = tasks[k].prompt.next_run_at
                  /\ IsDue(jobs'[j], now')
       /\ \A k \in 1..Len(tasks) :
            (loop = "idle" /\ loop' = "gather" /\ Interrupted(k))
            => \E n \in 1..Len(tasks') :
                  /\ tasks'[n].prompt.id = tasks[k].prompt.id
                  /\ tasks'[n].pc = "wait"
                  /\ tasks'[n].prompt = tasks[k].prompt]_vars

\* After a restart the poll has created a task for a job whose earlier run
\* was cut short after its chat was written: the job's row is as before the
\* run and the chat of the cut run is in the store.
InterruptedRunRedispatched ==
    /\ loop = "gather"
    /\ now > StartTime
    /\ \E k \in 1..Len(tasks) :
          /\ tasks[k].pc = "wait"
          /\ runs[tasks[k].prompt.id] = 0
          /\ jobs[tasks[k].prompt.id] = tasks[k].prompt
          /\ \E c \in 1..Len(chats) :
                HoldsTranscript(chats[c], tasks[k].prompt.prompt, StartTime)
    /\ \A j \in DOMAIN runs : runs[j] = 0

PollDispatchesDueInOrder ==
    [][/\ (loop = "idle" /\ loop' = "gather") =>
            /\ \A n \in 1..Len(tasks') :
                  LET p == tasks'[n].prompt
                  IN /\ p.id \in DOMAIN jobs
                     /\ p = jobs[p.id]
                     /\ p.enabled = TRUE
                     /\ p.next_run_at # None
                     /\ p.next_run_at <= now
                     /\ tasks'[n].pc = "wait"
            /\ \A a, b \in 1..Len(tasks') :
                  a < b => /\ tasks'[a].prompt.next_run_at <= tasks'[b].prompt.next_run_at
                           /\ tasks'[a].prompt.id # tasks'[b].prompt.id
       /\ ~(loop = "idle" /\ loop' = "gather") =>
            \A n \in 1..Len(tasks') :
                /\ n <= Len(tasks)
                /\ tasks'[n].prompt = tasks[n].prompt
       /\ \A n \in 1..Len(tasks) :
            (Len(tasks') = Len(tasks) /\ tasks[n].pc = "wait" /\ tasks'[n].pc # "wait")
            => \A k \in 1..(n - 1) : tasks[k].pc # "wait"]_vars

\* A poll returned the job with the larger id first, its next_run_at being
\* the earlier one, and left no task for it to wait behind.
LaterIdPolledFirst ==
    /\ loop = "gather"
    /\ Len(tasks) = 2
    /\ tasks[1].prompt.id > tasks[2].prompt.id
    /\ tasks[1].prompt.next_run_at < tasks[2].prompt.next_run_at
    /\ tasks[1].pc = "call"
    /\ tasks[2].pc = "wait"

\* C17: a step of a notification channel, failing or not, leaves the job
\* rows, the chats and the outcome of the run as they were; after the in-app
\* channel, whether an emit raised or not, the push channel is attempted when
\* the user has it configured; and a run that is over has the status in its
\* job row that it recorded before its notifications.
NotificationFailureContained ==
    [][\A k \in 1..Len(tasks) :
          (/\ Len(tasks') = Len(tasks)
           /\ tasks[k].pc \in {"notify_app", "notify_push"}
           /\ tasks'[k] # tasks[k])
          => /\ jobs' = jobs
             /\ chats' = chats
             /\ runs' = runs
             /\ tasks'[k].outcome = tasks[k].outcome
             /\ tasks'[k].error = tasks[k].error
             /\ tasks'[k].chat_id = tasks[k].chat_id
             /\ jobs'[tasks[k].prompt.id].last_status = tasks[k].outcome
             /\ (tasks[k].pc = "notify_app" /\ PushConfigured(env))
                    => tasks'[k].pc = "notify_push"
             /\ tasks[k].pc = "notify_push"
                    => (tasks'[k].pc = "done" /\ tasks'[k].push \in {"sent", "failed"})]_vars

\* A run that succeeded, whose first emit raised and whose push request
\* failed, is over and recorded as a success.
BothChannelsFailed ==
    \E k \in 1..Len(tasks) :
        /\ tasks[k].pc = "done"
        /\ tasks[k].outcome = "success"
        /\ env.sessions # <<>>
        /\ tasks[k].emitted = <<>>
        /\ tasks[k].push = "failed"
        /\ jobs[tasks[k].prompt.id].last_status = "success"
        /\ jobs[tasks[k].prompt.id].last_error = "None"
        /\ ChatExists(chats, tasks[k].chat_id)

\* C18: once the in-app notification of a run is over, it has been emitted to
\* every session id the user has in the pool, in the pool's order; for a user
\* with no session nothing is emitted, and the run's outcome is what it was.
EverySessionNotified ==
    \A k \in 1..Len(tasks) :
        tasks[k].pc \in {"notify_push", "done"} =>
            /\ tasks[k].emitted = env.sessions
            /\ tasks[k].outcome = jobs[tasks[k].prompt.id].last_status

\* The instants at which a loop that started at StartTime can poll.
PollTimes ==
    {StartTime + k * SCHEDULER_CHECK_INTERVAL :
        k \in 0..((MaxTime - StartTime) \div SCHEDULER_CHECK_INTERVAL)}

\* C19: unless stop_scheduler cancels the loop, a tick always ends in the
\* loop's sleep, whether its jobs failed or not, and a sleep is always
\* followed, one interval later, by the next poll, whose query returns (the
\* loop waits on its batch) or raises (the loop sleeps again).
LoopSurvivesErrors ==
    /\ (loop = "gather") ~> (loop \in {"sleep", "stopped"})
    /\ \A T \in PollTimes :
          (loop = "sleep" /\ now = T /\ T + SCHEDULER_CHECK_INTERVAL <= MaxTime)
              ~> \/ loop = "stopped"
                 \/ /\ now = T + SCHEDULER_CHECK_INTERVAL
                    /\ loop \in {"gather", "sleep"}

\* The poll after a tick in which a job failed has created its tasks.
PolledAfterFailure ==
    /\ loop = "gather"
    /\ now = StartTime + SCHEDULER_CHECK_INTERVAL
    /\ Len(tasks) > 0
    /\ \E j \in DOMAIN jobs :
          /\ jobs[j].last_status = "error"
          /\ jobs[j].last_run_at = StartTime
          /\ runs[j] = 1

\* The columns of a job that are not execution state, chat_id or enabled.
ConfiguredFields ==
    {"id", "user_id", "name", "cron_expression", "timezone", "run_once",
     "model_id", "system_prompt", "prompt", "create_new_chat", "tool_ids",
     "function_calling_mode"}

\* C20: the step in which a run completes, with success or error, leaves the
\* cron expression, timezone, run_once flag and payload of the stored row
\* as they are, also when a route changed them after the poll; it leaves the
\* enabled flag of a row that is recurring as it is; and it writes no other
\* row.
CompletionKeepsConfiguration ==
    [][\A k \in 1..Len(tasks) :
          (/\ Len(tasks') = Len(tasks)
           /\ tasks[k].outcome = "none"
           /\ tasks'[k].outcome \in {"success", "error"})
          => LET j == tasks[k].prompt.id
             IN /\ \A f \in ConfiguredFields : jobs'[j][f] = jobs[j][f]
                /\ ~jobs[j].run_once => jobs'[j].enabled = jobs[j].enabled
                /\ \A other \in DOMAIN jobs \ {j} : jobs'[other] = jobs[other]]_vars

\* C21: when a run of a recurring job completes, the stored next_run_at is the
\* first fire instant after now of the schedule the row holds at that moment,
\* also when a route changed the cron expression or the timezone while the
\* run was in flight.
CompletionFollowsStoredSchedule ==
    [][\A k \in 1..Len(tasks) :
          (/\ Len(tasks') = Len(tasks)
           /\ tasks[k].outcome = "none"
           /\ tasks'[k].outcome \in {"success", "error"}
           /\ ~tasks[k].prompt.run_once
           /\ ~jobs[tasks[k].prompt.id].run_once)
          => LET j == tasks[k].prompt.id
             IN IsNextFire(jobs'[j].cron_expression, jobs'[j].timezone,
                           now, jobs'[j].next_run_at)]_vars

\* C22: when no WEBUI_URL base is configured, deep-link construction returns
\* null and neither the in-app payload nor the push payload of a finished run
\* carries a chat_url or a scheduled_prompts_url.
NoBaseNoDeepLinks ==
    get_webui_base_url(env.webui_url) = <<>>
    => /\ build_webui_url(env, <<"/", "workspace/scheduled-prompts">>) = <<>>
       /\ \A k \in 1..Len(tasks) :
             tasks[k].outcome # "none"
             => /\ tasks[k].notify.app.chat_url = <<>>
                /\ tasks[k].notify.app.scheduled_prompts_url = <<>>
                /\ tasks[k].notify.push.chat_url = <<>>
                /\ tasks[k].notify.push.scheduled_prompts_url = <<>>

\* The Actions header holds this many entries.
ActionEntries(header) == Cardinality({ n \in 1..Len(header) : header[n] = "view, " })

\* The links a payload carries.
LinksOf(data) == { u \in {data.chat_url, data.scheduled_prompts_url} : u # <<>> }

\* C23: the push request's Click header is the chat deep link when the payload
\* has one and the scheduled-prompts link only otherwise, its Actions header has
\* one entry per link of the payload, and its body is the message text alone,
\* holding none of the links.
PushLinksOnlyInHeaders ==
    \A k \in 1..Len(tasks) :
        tasks[k].push \in {"sent", "failed"}
        => LET data == tasks[k].notify.push
               post == tasks[k].posted
           IN /\ data.chat_url # <<>> => post.Click = data.chat_url
              /\ data.chat_url = <<>> => post.Click = data.scheduled_prompts_url
              /\ ActionEntries(post.Actions) = Cardinality(LinksOf(data))
              /\ \A u \in LinksOf(data) : Contains(post.Actions, u)
              /\ post.body = data.message
              /\ \A u \in LinksOf(data) : ~Contains(post.body, u)

\* A successful run posted a push request whose payload has both links, and
\* the message has an output preview.
PushedWithChatLink ==
    \E k \in 1..Len(tasks) :
        /\ tasks[k].push = "sent"
        /\ tasks[k].notify.push.chat_url # <<>>
        /\ tasks[k].notify.push.scheduled_prompts_url # <<>>
        /\ Contains(tasks[k].posted.body, <<"Output:">>)

----------------------------------------------------------------------------
(* sanitize_tool_chatter_text as a function of its arguments: every text of
   up to MaxChunks chunks, sanitised MaxApplications times for the same
   action_tools. tasks holds the text after zero, one, two applications. *)

MaxChunks == 6
MaxApplications == 2

\* A reply is made of plain words, tool-call chatter ("to=x ", "to=notes_manager "),
\* the word "commentary" (with nothing after it, so that the next chunk is glued
\* to it) and paragraph breaks.
SanChunks ==
    { <<"ok", " ">>, <<"to=", "x", " ">>, <<"commentary">>,
      <<"to=", "notes_manager", " ">>, <<"\n\n">> }

InitSanitize ==
    /\ now = StartTime
    /\ loop = "down"
    /\ permits = GateSize
    /\ runs = <<>>
    /\ jobs = <<>>
    /\ chats = <<>>
    /\ env = BaseEnv
    /\ \E n \in 0..MaxChunks :
          \E list \in [1..n -> SanChunks],
             action_tools \in { <<>>, << <<"Notes_Manager">> >> } :
             tasks = << [content |-> Flatten(list), action_tools |-> action_tools] >>

\* One more application to the last result.
Sanitize ==
    /\ Len(tasks) <= MaxApplications
    /\ tasks' = Append(tasks,
                       [tasks[Len(tasks)] EXCEPT
                           !.content = sanitize_tool_chatter_text(
                                           @, tasks[1].action_tools)])
    /\ UNCHANGED <<now, jobs, chats, env, loop, permits, runs>>

SpecSanitize == InitSanitize /\ [][Sanitize]_vars

\* C24: sanitize_tool_chatter_text is idempotent: for every content and every
\* action_tools list, sanitising the result a second time with the same tools
\* returns the same text as sanitising once.
SanitizeIdempotent ==
    Len(tasks) >= 3 => tasks[3].content = tasks[2].content

\* C25: the initial request of a run carries params.function_calling equal to
\* the job's mode when the mode is default or native, and has no params key
\* when the mode is auto.
InitialRequestCarriesMode ==
    \A k \in 1..Len(tasks) :
        tasks[k].sent # <<>>
        => LET mode == tasks[k].prompt.function_calling_mode
               first == tasks[k].sent[1]
           IN /\ mode \in {"default", "native"} => first.function_calling = mode
              /\ mode = "auto" => first.function_calling = "absent"

\* A job in auto mode has sent its initial request, a payload without params.
AutoRequestSent ==
    \E k \in 1..Len(tasks) :
        /\ tasks[k].prompt.function_calling_mode = "auto"
        /\ tasks[k].sent # <<>>
        /\ tasks[k].sent[1].function_calling = "absent"

\* The run k takes a step on a response that did not raise.
Responded(k) ==
    /\ Len(tasks') = Len(tasks)
    /\ tasks[k].pc = "call"
    /\ tasks'[k] # tasks[k]
    /\ tasks'[k].outcome # "error"

\* C26: when the first response has empty content and non-empty tool_calls, a
\* run whose mode is not default issues exactly one retry, the initial request
\* with params.function_calling = default, and takes its content from the
\* retry's response; a run in default mode issues no retry; in both cases
\* content that is still empty is replaced by the fallback sentinel.
ToolCallsOnlyRetriedOnce ==
    [][\A k \in 1..Len(tasks) :
          Responded(k)
          => LET t == tasks[k]
                 u == tasks'[k]
                 r == u.response
             IN /\ (t.stage = "S0" /\ ContentOf(r) = <<>> /\ r.tool_calls)
                   => IF t.mode # "default"
                      THEN /\ u.pc = "call"
                           /\ u.stage = "S1"
                           /\ Len(t.sent) = 1
                           /\ u.sent = <<t.sent[1],
                                         [t.sent[1] EXCEPT
                                             !.function_calling = "default"]>>
                      ELSE /\ u.sent = t.sent
                           /\ u.content = SENTINEL
                /\ t.stage = "S1"
                   => /\ Len(t.sent) = 2
                      /\ u.pc = "call" => u.stage # "S1"
                      /\ u.content = IF ContentOf(r) # <<>> THEN ContentOf(r)
                                     ELSE SENTINEL]_vars

\* A run in native or auto mode was retried in default mode and succeeded with
\* the text of the retry.
RetriedInDefaultMode ==
    \E k \in 1..Len(tasks) :
        /\ Len(tasks[k].sent) = 2
        /\ tasks[k].sent[1].function_calling # "default"
        /\ tasks[k].sent[2].function_calling = "default"
        /\ tasks[k].stage = "S1"
        /\ tasks[k].outcome = "success"
        /\ tasks[k].content = ContentOf(tasks[k].response)
        /\ tasks[k].content # <<>>

\* content, trimmed, is a JSON object with a tool key or a tool_calls key,
\* whatever the value.
HasToolKey(content) ==
    LET text == Strip(content)
        n == Len(text)
    IN /\ n >= 5
       /\ text[1] = "{"
       /\ text[n] = "}"
       /\ \/ SubSeq(text, 2, 3) = <<"tool", ":">>
          \/ SubSeq(text, 2, 4) = <<"tool_call", "s", ":">>

\* The step of run k in which the pipeline reaches S2: a response to the
\* initial request or to its retry that is not followed by the retry.
ReachesS2(k) ==
    /\ Responded(k)
    /\ tasks[k].stage \in {"S0", "S1"}
    /\ ~(tasks[k].stage = "S0" /\ tasks'[k].pc = "call" /\ tasks'[k].stage = "S1")

\* C27: the S2 continuation turn is issued exactly when the trimmed assistant
\* content parses as a JSON object with a tool key or a tool_calls key and
\* action_tools is non-empty, whatever the values under those keys.
ContinuationIffToolKey ==
    [][\A k \in 1..Len(tasks) :
          ReachesS2(k)
          => ((tasks'[k].pc = "call" /\ tasks'[k].stage = "S2")
              <=> (/\ HasToolKey(ContentOf(tasks'[k].response))
                   /\ tasks[k].action_tools # <<>>))]_vars

\* C28: whenever the S2 continuation is issued, its request has exactly four
\* messages (the system message, the original user prompt, the assistant's raw
\* output and a user turn with the 'Execute the requested tool call(s) above...'
\* instruction), params.function_calling = default and tool_ids = action_tools;
\* its response replaces the current content and response only if its content
\* is non-empty.
ContinuationRequestAndResponse ==
    [][\A k \in 1..Len(tasks) :
          Responded(k)
          => LET t == tasks[k]
                 u == tasks'[k]
             IN /\ (ReachesS2(k) /\ u.pc = "call" /\ u.stage = "S2")
                   => LET request == u.sent[Len(u.sent)]
                          raw == ContentOf(u.response)
                      IN /\ Len(u.sent) = Len(t.sent) + 1
                         /\ Len(request.messages) = 4
                         /\ request.messages[1].role = "system"
                         /\ request.messages[2] =
                                [role |-> "user", content |-> t.prompt.prompt]
                         /\ request.messages[3] =
                                [role |-> "assistant", content |-> raw]
                         /\ request.messages[4] =
                                [role |-> "user", content |-> S2_INSTRUCTION]
                         /\ request.function_calling = "default"
                         /\ request.tool_ids = t.action_tools
                /\ t.stage = "S2"
                   => IF u.response # t.response
                      THEN /\ ContentOf(u.response) # <<>>
                           /\ u.content = ContentOf(u.response)
                      ELSE u.content = t.content]_vars

\* A run whose model answered with raw tool-call JSON was continued and ended
\* with the text of the continuation.
ContinuedAfterRawToolJson ==
    \E k \in 1..Len(tasks) :
        /\ tasks[k].stage = "S2"
        /\ tasks[k].outcome = "success"
        /\ Len(tasks[k].sent[Len(tasks[k].sent)].messages) = 4
        /\ ~IsRawToolRequest(tasks[k].content)
        /\ tasks[k].content = ContentOf(tasks[k].response)

\* The step of run k in which the pipeline reaches S3: a response to the
\* initial request or its retry that leads to neither the retry nor S2, or the
\* response to the S2 continuation.
ReachesS3(k) ==
    /\ Responded(k)
    /\ \/ ReachesS2(k) /\ ~(tasks'[k].pc = "call" /\ tasks'[k].stage = "S2")
       \/ tasks[k].stage = "S2"

\* The content run k holds once its step has dealt with the response: the
\* response's own when it replaced the content, the content before otherwise.
ContentAfterResponse(k) ==
    IF tasks'[k].response # tasks[k].response \/ tasks[k].stage \in {"S0", "S1"}
    THEN ContentOf(tasks'[k].response)
    ELSE tasks[k].content

\* C29: when the lowercased assistant content contains a chatter marker and
\* mentions a tool of action_tools, exactly one forced continuation is issued,
\* whose messages are the original messages followed by a single user turn and
\* whose function_calling is default; afterwards sanitize_tool_chatter_text is
\* applied to the content, whether or not the continuation's content replaced it.
ChatterForcesOneContinuation ==
    [][\A k \in 1..Len(tasks) :
          LET t == tasks[k]
              u == tasks'[k]
          IN /\ (/\ ReachesS3(k)
                 /\ has_malformed_tool_chatter(ContentAfterResponse(k),
                                               t.action_tools))
                => LET request == u.sent[Len(u.sent)]
                   IN /\ u.pc = "call"
                      /\ u.stage = "S3"
                      /\ Len(u.sent) = Len(t.sent) + 1
                      /\ Len(request.messages) = Len(t.messages) + 1
                      /\ SubSeq(request.messages, 1, Len(t.messages)) = t.messages
                      /\ request.messages[Len(request.messages)].role = "user"
                      /\ \A n \in 1..Len(request.messages) :
                            request.messages[n].role # "assistant"
                      /\ request.function_calling = "default"
             /\ (Responded(k) /\ t.stage = "S3")
                => /\ u.pc = "call" => u.stage = "S4"
                   /\ u.content = sanitize_tool_chatter_text(
                                      ContentAfterResponse(k), t.action_tools)]_vars

\* The forced continuation came back empty, and the run ended with its earlier
\* content sanitised: the answer without the chatter in front of it.
KeptContentSanitized ==
    \E k \in 1..Len(tasks) :
        /\ tasks[k].stage = "S3"
        /\ tasks[k].outcome = "success"
        /\ ContentOf(tasks[k].response) # tasks[k].content
        /\ tasks[k].content = <<"Buy", " ", "milk.">>

\* The step of run k in which the pipeline is at S4: a response after which
\* the run is past the retry and the two continuations.
ReachesS4(k) ==
    /\ Responded(k)
    /\ ~(tasks'[k].pc = "call" /\ tasks'[k].stage \in {"S1", "S2", "S3"})

\* The step of run k sends a notes follow-up.
FollowupIssued(k) ==
    /\ tasks'[k].pc = "call"
    /\ tasks'[k].stage = "S4"
    /\ Len(tasks'[k].sent) = Len(tasks[k].sent) + 1

\* has_list and (not has_get, or has_not_found, or (list_ids non-empty and not
\* used_expected)) and list_ids non-empty, for the sources run k holds.
FollowupTrigger(k) ==
    LET sources == tasks'[k].response.sources
        list_ids == extract_note_ids_from_list_sources(sources)
        got == extract_get_note_ids_and_failures(sources)
        has_list == \E n \in 1..Len(sources) : IsListSource(sources[n])
        has_get == \E n \in 1..Len(sources) : IsGetSource(sources[n])
        used_expected == \E a \in 1..Len(got.used), b \in 1..Len(list_ids) :
                            got.used[a] = list_ids[b]
    IN /\ has_list
       /\ ~has_get \/ got.not_found \/ (list_ids # <<>> /\ ~used_expected)
       /\ list_ids # <<>>

\* C30 as stated: with a notes tool in action_tools an S4 follow-up is issued
\* for the current sources iff has_list and (not has_get, or has_not_found, or
\* (list_ids non-empty and not used_expected)) and list_ids is non-empty;
\* without a notes tool no S4 follow-up is ever issued.
FollowupIffTrigger ==
    [][\A k \in 1..Len(tasks) :
          ReachesS4(k)
          => (FollowupIssued(k)
              <=> (/\ is_notes_tool_enabled(tasks[k].action_tools)
                   /\ FollowupTrigger(k)))]_vars

\* C30, amended: a follow-up is issued only with a notes tool in action_tools,
\* the trigger true of the current sources and fewer than two follow-ups sent
\* by the run; and it is issued under these conditions whenever the response
\* just handled is the one the run now holds (a follow-up that comes back
\* empty ends the loop).
FollowupIffTriggerWithinLoop ==
    [][\A k \in 1..Len(tasks) :
          ReachesS4(k)
          => LET may == /\ is_notes_tool_enabled(tasks[k].action_tools)
                        /\ FollowupTrigger(k)
                        /\ tasks[k].attempts < MaxNotesFollowups
             IN /\ FollowupIssued(k) => may
                /\ (/\ may
                    /\ tasks[k].stage = "S4"
                       => tasks'[k].response # tasks[k].response)
                   => FollowupIssued(k)]_vars

\* A reply that lists the notes and fetches one by its title was followed up,
\* and the run ended once the listed note had been fetched by its id.
FollowupAfterWrongId ==
    \E k \in 1..Len(tasks) :
        /\ tasks[k].stage = "S4"
        /\ tasks[k].attempts = 1
        /\ tasks[k].outcome = "success"
        /\ Len(tasks[k].sent) = 2
        /\ tasks[k].sent[2].messages[Len(tasks[k].sent[2].messages) - 1].content
               = FetchedByTitleResponse.content
        /\ tasks[k].response = ListedAndFetchedResponse

\* The notes follow-ups among the requests of a run.
FollowupsSent(t) ==
    { n \in 1..Len(t.sent) :
        LET last == t.sent[n].messages[Len(t.sent[n].messages)]
        IN /\ last.role = "user"
           /\ Len(last.content) >= Len(S4_INSTRUCTION_HEAD)
           /\ SubSeq(last.content, 1, Len(S4_INSTRUCTION_HEAD)) = S4_INSTRUCTION_HEAD }

\* C31: the S4 loop issues at most two follow-up calls per run; it issues one
\* only while its trigger holds of the sources the run has, and after a
\* follow-up only when that follow-up returned content; a follow-up that returns
\* empty content leaves the previous content and response in place and ends
\* the loop.
FollowupLoopBounded ==
    [][\A k \in 1..Len(tasks) :
          LET t == tasks[k]
              u == tasks'[k]
          IN Responded(k)
             => /\ Cardinality(FollowupsSent(u)) <= MaxNotesFollowups
                /\ FollowupIssued(k)
                   => /\ FollowupTrigger(k)
                      /\ Cardinality(FollowupsSent(u))
                            = Cardinality(FollowupsSent(t)) + 1
                /\ t.stage = "S4"
                   => /\ u.response # t.response => ContentOf(u.response) # <<>>
                      /\ u.response = t.response
                         => u.content = t.content
                      /\ ~FollowupIssued(k) => u.outcome = "success"]_vars

\* A run sent two follow-ups and ended with what the last of them returned
\* although that reply was another listing.
TwoFollowupsThenStop ==
    \E k \in 1..Len(tasks) :
        /\ Cardinality(FollowupsSent(tasks[k])) = 2
        /\ tasks[k].outcome = "success"
        /\ tasks[k].response = ListedResponse

\* The ids between the head and the tail of a follow-up instruction, as the
\* list that ", ".join was given.
RECURSIVE ListedIds(_)
ListedIds(text) ==
    IF text = <<>> \/ text[1] = "." THEN <<>>
    ELSE IF text[1] \in {",", " "} THEN ListedIds(Tail(text))
    ELSE <<text[1]>> \o ListedIds(Tail(text))

\* C32: in every run in which S4 was triggered, the last chat-completion
\* request ends with a user message that contains 'You MUST call get_note with
\* parameter note_id' and lists up to five UUIDs, in first-seen order, of the
\* list/search sources of the response the run held when the request was made.
LastRequestNamesListedIds ==
    [][\A k \in 1..Len(tasks) :
          LET t == tasks[k]
              u == tasks'[k]
          IN Responded(k)
             => /\ FollowupsSent(u) # {} => Len(u.sent) \in FollowupsSent(u)
                /\ FollowupIssued(k)
                   => LET request == u.sent[Len(u.sent)]
                          last == request.messages[Len(request.messages)]
                          ids == extract_note_ids_from_list_sources(
                                     u.response.sources)
                          named == ListedIds(SubSeq(last.content,
                                                    Len(S4_INSTRUCTION_HEAD) + 1,
                                                    Len(last.content)))
                      IN /\ Len(u.sent) \in FollowupsSent(u)
                         /\ Len(named) <= MaxHintIds
                         /\ Len(named) = IF Len(ids) < MaxHintIds THEN Len(ids)
                                         ELSE MaxHintIds
                         /\ \A n \in 1..Len(named) : named[n] = ids[n]
                         /\ \A a, b \in 1..Len(ids) : a # b => ids[a] # ids[b]]_vars

\* A search that names six notes was followed up with the first five of them,
\* and the run ended after the follow-up.
FiveOfSixIdsNamed ==
    \E k \in 1..Len(tasks) :
        /\ tasks[k].outcome = "success"
        /\ FollowupsSent(tasks[k]) # {}
        /\ LET last == tasks[k].sent[2].messages[
                           Len(tasks[k].sent[2].messages)]
           IN ListedIds(SubSeq(last.content, Len(S4_INSTRUCTION_HEAD) + 1,
                               Len(last.content)))
                  = <<"uuid-3", "uuid-1", "uuid-2", "uuid-6", "uuid-5">>

\* The step in which run k completes successfully.
Completes(k) ==
    /\ Responded(k)
    /\ tasks[k].outcome = "none"
    /\ tasks'[k].outcome = "success"

\* The assistant message the completing run k has stored.
StoredAnswer(k) ==
    LET stored == chats'[tasks'[k].chat_id].messages
    IN stored[Len(stored)]

\* The (document, note_id) places of the get_note sources: source n, document d.
NotePlaces(sources) ==
    { p \in (1..Len(sources)) \X (1..3) :
        /\ IsGetSource(sources[p[1]])
        /\ p[2] <= Len(sources[p[1]].document)
        /\ Strip(sources[p[1]].document[p[2]]) # <<>> }

\* C33: the sources, citations and note_attachments of the persisted assistant
\* message are those of the last response the pipeline adopted, the one that
\* supplied the final content, never of a response whose content was discarded;
\* citations equals sources, and note_attachments pairs each non-empty
\* get_note document with the note_id at the same metadata index.
AnswerCarriesAdoptedSources ==
    [][\A k \in 1..Len(tasks) :
          Completes(k)
          => LET answer == StoredAnswer(k)
                 adopted == tasks'[k].response
                 places == NotePlaces(answer.sources)
             IN /\ answer.role = "assistant"
                /\ answer.sources = adopted.sources
                /\ answer.citations = answer.sources
                /\ IF ContentOf(adopted) # <<>>
                   THEN answer.content \in
                            {ContentOf(adopted),
                             sanitize_tool_chatter_text(ContentOf(adopted),
                                                        tasks[k].action_tools)}
                   ELSE answer.content \in {SENTINEL, <<>>}
                /\ Len(answer.note_attachments) = Cardinality(places)
                /\ \A p \in places :
                      \E a \in 1..Len(answer.note_attachments) :
                         LET source == answer.sources[p[1]]
                         IN /\ answer.note_attachments[a].content
                                  = Strip(source.document[p[2]])
                            /\ answer.note_attachments[a].note_id
                                  = IF p[2] <= Len(source.metadata)
                                    THEN source.metadata[p[2]].note_id
                                    ELSE ""]_vars

\* A listing was followed up, the follow-up fetched the note, and the stored
\* answer carries the note as an attachment and the follow-up's sources.
FollowupSourcesStored ==
    \E k \in 1..Len(tasks) :
        /\ tasks[k].outcome = "success"
        /\ FollowupsSent(tasks[k]) # {}
        /\ LET stored == chats[tasks[k].chat_id].messages
           IN /\ stored[Len(stored)].sources = FetchedResponse.sources
              /\ stored[Len(stored)].note_attachments
                    = << [note_id |-> "uuid-1", content |-> <<"milk">>] >>

----------------------------------------------------------------------------
(* The model of a run as a function of the registry and of the user's
   default-models list: one due job asking for m1, every registry of up to
   MaxRegistry distinct models, every default-models list of up to MaxDefaults
   ids, one of which (m9) is in no registry. *)

MaxRegistry == 3
MaxDefaults == 2

InitModel ==
    /\ now = StartTime
    /\ loop = "idle"
    /\ tasks = <<>>
    /\ permits = GateSize
    /\ runs = [id \in {1} |-> 0]
    /\ chats = <<>>
    /\ jobs = [id \in {1} |-> Row(id, "0 * * * *", "UTC", FALSE, TRUE, TRUE)]
    /\ \E n \in 0..MaxRegistry, d \in 0..MaxDefaults :
          \E ids \in [1..n -> {"m1", "m2", "m3"}],
             user_models \in [1..d -> {"m2", "m3", "m9"}] :
             /\ \A a, b \in 1..n : a # b => ids[a] # ids[b]
             /\ env = [BaseEnv EXCEPT
                          !.sessions = <<>>, !.ntfy = FALSE,
                          !.models = [k \in 1..n |-> [id |-> ids[k],
                                                     toolIds |-> <<>>]],
                          !.user_models = user_models]

SpecModel == InitModel /\ [][Poll \/ \E i \in 1..Len(tasks) : Dispatch(i)]_vars

\* C34: the effective model of a run is job.model_id if it is in the registry;
\* otherwise the first id of the user's default-models list that is in the
\* registry; otherwise some registry entry; the run fails only when the
\* registry is empty.
ModelFallsBackInOrder ==
    [][\A k \in 1..Len(tasks) :
          (/\ Len(tasks') = Len(tasks)
           /\ tasks[k].pc = "wait"
           /\ tasks'[k].pc # "wait")
          => LET registry == RegistryIds(env)
                 wanted == tasks[k].prompt.model_id
                 listed == { n \in 1..Len(env.user_models) :
                               env.user_models[n] \in registry }
                 effective == tasks'[k].model_id
             IN IF registry = {} THEN tasks'[k].outcome = "error"
                ELSE /\ tasks'[k].outcome = "none"
                     /\ tasks'[k].sent[1].model = effective
                     /\ IF wanted \in registry THEN effective = wanted
                        ELSE IF listed # {}
                        THEN \A n \in listed :
                                (\A m \in listed : n <= m)
                                => effective = env.user_models[n]
                        ELSE effective \in registry]_vars

\* messages is the user message and the assistant message of the completing run k.
IsTranscriptOf(messages, k) ==
    /\ Len(messages) = 2
    /\ messages[1].role = "user"
    /\ messages[1].content = tasks[k].prompt.prompt
    /\ messages[2].role = "assistant"
    /\ messages[2].content = tasks'[k].content

RunOnceCompletionAtomic ==
    \A id \in DOMAIN jobs :
        (/\ jobs[id].run_once
         /\ jobs[id].last_status # "None"
         /\ jobs[id].run_count > InitialRunCount(id))
        => ~jobs[id].enabled

\* Run k of the batch has neither returned nor been ended.
InFlight(k) == tasks[k].pc \notin {"done", "cancelled", "lost"}

\* C37: under any sequence of start_scheduler and stop_scheduler calls at most
\* one scheduler loop is active at a time: start_scheduler while a loop handle
\* exists is a no-op, and a new loop starts only after stop_scheduler (or the
\* end of the process) has cancelled and cleared the previous one, none of
\* whose runs is then still in flight.
AtMostOneLoop ==
    [][/\ is_scheduler_running
          => \A away \in {TickStep, SCHEDULER_CHECK_INTERVAL} :
                ~ENABLED start_scheduler(away)
       /\ (~is_scheduler_running /\ is_scheduler_running')
          => /\ loop \in {"stopped", "down"}
             /\ loop' = "idle"
             /\ \A k \in 1..Len(tasks) : ~InFlight(k)
             /\ tasks' = tasks
       /\ (is_scheduler_running /\ loop # "idle" /\ loop' = "idle")
          => loop = "sleep"
       /\ ~is_scheduler_running => \A k \in 1..Len(tasks) : ~InFlight(k)]_vars

\* A loop runs again after stop_scheduler cancelled the runs of the one before.
LoopStartedAfterStop ==
    /\ loop = "idle"
    /\ \E k \in 1..Len(tasks) : tasks[k].pc = "cancelled"

\* C38: the scheduler loop does not poll again until every execution of the
\* current batch has finished, so the loop by itself never runs two
\* executions of the same job concurrently, even when a run lasts longer than
\* the check interval.
LoopWaitsForBatch ==
    [][/\ (\E k \in 1..Len(tasks) : InFlight(k)) => loop = "gather"
       /\ (loop = "idle" /\ loop' = "gather")
          => /\ \A k \in 1..Len(tasks) : ~InFlight(k)
             /\ now' = now
       /\ (loop = "gather" /\ loop' # "gather")
          => \A k \in 1..Len(tasks) : tasks[k].pc = "done"
       /\ \A j, k \in 1..Len(tasks') :
             (j # k /\ tasks'[j].pc # "done" /\ tasks'[k].pc # "done")
             => tasks'[j].prompt.id # tasks'[k].prompt.id]_vars

\* A run of the first batch is still in flight a check interval after the
\* poll, its job's stored row still due, and the loop still in gather.
RunOutlastsInterval ==
    \E k \in 1..Len(tasks) :
        LET prompt == tasks[k].prompt
        IN /\ InFlight(k)
           /\ loop = "gather"
           /\ prompt.next_run_at <= StartTime
           /\ prompt.run_count = InitialRunCount(prompt.id)
           /\ jobs[prompt.id] = prompt
           /\ now >= StartTime + SCHEDULER_CHECK_INTERVAL

\* The runs of the loop that hold a permit of the gate.
GateHolders == {k \in 1..Len(tasks) : ~tasks[k].manual /\ InFlight(k) /\ tasks[k].pc # "wait"}

\* C39: a manual run through the run-now endpoint applies the same execution
\* and job-state transition as a scheduled run, but neither acquires the
\* concurrency gate nor checks the enabled flag or next_run_at: it can start
\* for any job in any state of the gate, reads the job's row as it is, begins as
\* a dispatched run begins, leaves the permits as they are at each of its
\* steps, and records its outcome as a run of the loop does.
ManualRunSameButUngated ==
    [][/\ \A id \in DOMAIN jobs :
             Len(ManualRuns(tasks)) < MaxManualRuns
             => ENABLED run_scheduled_prompt_now(id)
       /\ Len(ManualRuns(tasks')) > Len(ManualRuns(tasks))
          => LET t == tasks'[Len(tasks')]
                 row == jobs[t.prompt.id]
             IN /\ t.manual
                /\ t.prompt = row
                /\ permits' = permits
                /\ [t EXCEPT !.manual = FALSE] = Prepare(NewTask(row), env)
                /\ jobs' = jobs
       /\ \A k \in 1..Len(tasks) :
             (/\ tasks[k].manual
              /\ Len(tasks') = Len(tasks)
              /\ tasks'[k] # tasks[k])
             => /\ permits' = permits
                /\ tasks'[k].manual
                /\ tasks'[k].prompt = tasks[k].prompt
                /\ (tasks[k].outcome = "none" /\ tasks'[k].outcome = "success")
                   => jobs' = RecordSuccess(jobs, tasks[k].prompt,
                                            tasks'[k].chat_id, now)
                /\ (tasks[k].outcome = "none" /\ tasks'[k].outcome = "error")
                   => jobs' = RecordError(jobs, tasks[k].prompt,
                                          tasks'[k].error, now)
                /\ tasks'[k].outcome = tasks[k].outcome => jobs' = jobs]_vars

\* A manual run is in flight beside the loop's run of the same job while
\* GateSize runs of the loop hold the gate.
ManualBesideScheduled ==
    \E j, k \in 1..Len(tasks) :
        /\ tasks[j].manual /\ tasks[j].pc = "call"
        /\ ~tasks[k].manual /\ tasks[k].pc = "call"
        /\ tasks[j].prompt.id = tasks[k].prompt.id
        /\ k \in GateHolders
        /\ Cardinality(GateHolders) = GateSize
        /\ permits = 0

\* A run of job id reaches its completion step (either branch) in this step.
CompletesRunOf(id) ==
    \E k \in 1..Len(tasks') :
        /\ tasks'[k].prompt.id = id
        /\ tasks'[k].outcome # "none"
        /\ k <= Len(tasks) => tasks[k].outcome = "none"
        /\ jobs'[id].last_status = tasks'[k].outcome

====
